---- MODULE Spec2Model ----
(***************************************************************************)
(* Verification model of the trivia-challenge backend: the session / game  *)
(* flow handlers (src/index.js, second variant, lines 377-1001), the       *)
(* Valkey store adapter (src/unnamed/part_014, lines 1-351), the question  *)
(* rotation service (src/question-preloader.js, lines 384-1303) and the    *)
(* in-process rate limiter in its three variants (src/rate-limiter.js,     *)
(* src/unnamed/part_012, src/unnamed/part_013).                            *)
(*                                                                         *)
(* Strings that the code inspects character by character (question ids,   *)
(* session ids, answers, user ids) are sequences of one-character strings. *)
(* Seconds are kept in tenths of a second so that fractional timeTaken     *)
(* values and Math.floor are modelled exactly; milliseconds are integers.  *)
(***************************************************************************)
EXTENDS Integers, Sequences, FiniteSets, TLC

\* ------------------------------------------------------------------------
\* Character classes and generic string helpers
\* ------------------------------------------------------------------------
Digits == {"0", "1", "2", "3", "4", "5", "6", "7", "8", "9"}

LowerCase == {"a", "b", "c", "d", "e", "f", "g", "h", "i", "j", "k", "l", "m",
              "n", "o", "p", "q", "r", "s", "t", "u", "v", "w", "x", "y", "z"}

UpperCase == {"A", "B", "C", "D", "E", "F", "G", "H", "I", "J", "K", "L", "M",
              "N", "O", "P", "Q", "R", "S", "T", "U", "V", "W", "X", "Y", "Z"}

HexLetters == {"a", "b", "c", "d", "e", "f", "A", "B", "C", "D", "E", "F"}

AlphaNum == Digits \cup LowerCase \cup UpperCase

\* \w of a JavaScript regular expression
WordChars == AlphaNum \cup {"_"}

UpperSeq == <<"A", "B", "C", "D", "E", "F", "G", "H", "I", "J", "K", "L", "M",
             "N", "O", "P", "Q", "R", "S", "T", "U", "V", "W", "X", "Y", "Z">>

LowerSeq == <<"a", "b", "c", "d", "e", "f", "g", "h", "i", "j", "k", "l", "m",
             "n", "o", "p", "q", "r", "s", "t", "u", "v", "w", "x", "y", "z">>

\* String.prototype.toLowerCase and the /i flag, one character
ToLowerChar(c) ==
    IF c \in UpperCase THEN LowerSeq[CHOOSE i \in 1..26 : UpperSeq[i] = c] ELSE c

ToLower(s) == [i \in 1..Len(s) |-> ToLowerChar(s[i])]

\* pat occurs somewhere in s (an unanchored literal pattern)
Contains(s, pat) ==
    \E i \in 1..(Len(s) - Len(pat) + 1) :
        \A k \in 1..Len(pat) : s[i + k - 1] = pat[k]

\* the same with the /i flag; pat is given in lower case
ContainsNoCase(s, pat) ==
    \E i \in 1..(Len(s) - Len(pat) + 1) :
        \A k \in 1..Len(pat) : ToLowerChar(s[i + k - 1]) = pat[k]

AllIn(s, chars) == \A i \in 1..Len(s) : s[i] \in chars

\* String(x).replace(/[^allowed]/g, '').substring(0, maxLen)
StripTo(s, allowed, maxLen) ==
    LET kept == SelectSeq(s, LAMBDA c : c \in allowed)
    IN  SubSeq(kept, 1, IF Len(kept) < maxLen THEN Len(kept) ELSE maxLen)

\* ------------------------------------------------------------------------
\* Input validation of the handlers
\* ------------------------------------------------------------------------
\* the character class [<>"'&\$\{\$\(] used by validateSessionId/validateAnswer
ForbiddenChars == {"<", ">", "\"", "'", "&", "$", "{", "("}

\* /on\w+=/i : "on", one or more word characters, "="
MatchesOnHandler(s) ==
    \E j \in 1..Len(s) :
        /\ s[j] = "="
        /\ \E i \in 1..(j - 3) :
              /\ ToLowerChar(s[i]) = "o" /\ ToLowerChar(s[i + 1]) = "n"
              /\ \A k \in (i + 2)..(j - 1) : s[k] \in WordChars

\* maliciousPatterns of validateQuestionId
MaliciousPattern(s) ==
    \/ ContainsNoCase(s, <<"<", "s", "c", "r", "i", "p", "t">>)
    \/ ContainsNoCase(s, <<"j", "a", "v", "a", "s", "c", "r", "i", "p", "t", ":">>)
    \/ MatchesOnHandler(s)
    \/ Contains(s, <<"$", "{">>)
    \/ Contains(s, <<"$", "(">>)
    \/ ContainsNoCase(s, <<"e", "v", "a", "l", "(">>)
    \/ ContainsNoCase(s, <<"f", "u", "n", "c", "t", "i", "o", "n", "(">>)

\* /^[a-f0-9]{8}-[a-f0-9]{4}-[a-f0-9]{4}-[a-f0-9]{4}-[a-f0-9]{12}$/i
UuidFormat(s) ==
    /\ Len(s) = 36
    /\ \A i \in 1..36 :
          IF i \in {9, 14, 19, 24} THEN s[i] = "-"
          ELSE s[i] \in Digits \cup HexLetters

\* /^mock_\d+$/i
MockFormat(s) ==
    /\ Len(s) >= 6
    /\ ToLower(SubSeq(s, 1, 5)) = <<"m", "o", "c", "k", "_">>
    /\ AllIn(SubSeq(s, 6, Len(s)), Digits)

\* /^mixed_\d+_[a-z0-9]+_\d+$/i
MixedFormat(s) ==
    /\ Len(s) >= 11
    /\ ToLower(SubSeq(s, 1, 6)) = <<"m", "i", "x", "e", "d", "_">>
    /\ \E a \in 8..Len(s) : \E b \in 10..Len(s) :
          /\ a + 1 < b /\ b < Len(s)
          /\ s[a] = "_" /\ s[b] = "_"
          /\ AllIn(SubSeq(s, 7, a - 1), Digits)
          /\ AllIn(SubSeq(s, a + 1, b - 1), AlphaNum)
          /\ AllIn(SubSeq(s, b + 1, Len(s)), Digits)

validateQuestionId(questionId) ==
    /\ Len(questionId) > 0
    /\ ~(Len(questionId) > 100 \/ Len(questionId) < 5)
    /\ ~MaliciousPattern(questionId)
    /\ (UuidFormat(questionId) \/ MixedFormat(questionId) \/ MockFormat(questionId))

validateSessionId(sessionId) ==
    /\ ~(Len(sessionId) = 0 \/ Len(sessionId) > 100)
    /\ ~(\E i \in 1..Len(sessionId) : sessionId[i] \in ForbiddenChars)

validateAnswer(answer) ==
    /\ Len(answer) <= 500
    /\ ~(\E i \in 1..Len(answer) : answer[i] \in ForbiddenChars)

\* timeTaken is carried in tenths of a second: 300 s = 3000 tenths
isValidTimeTaken(timeTaken) == ~(timeTaken < 0 \/ timeTaken > 3000)

\* input-validator.js validateSessionData: the errors it collects
validateSessionData(data) ==
    LET errors ==
          (IF Len(data.sessionId) = 0 \/ Len(data.sessionId) > 100
             THEN {"Invalid session ID"} ELSE {})
          \cup (IF Len(data.questionId) = 0 \/ Len(data.questionId) > 100
             THEN {"Invalid question ID"} ELSE {})
          \cup (IF Len(data.answer) > 500 THEN {"Invalid answer"} ELSE {})
          \cup (IF data.timeTaken < 0 \/ data.timeTaken > 3000
             THEN {"Invalid time taken"} ELSE {})
    IN  [valid |-> errors = {}, errors |-> errors]

\* ------------------------------------------------------------------------
\* Scoring
\* ------------------------------------------------------------------------
normalizeTimeTaken(timeTaken) ==
    IF timeTaken > 0 /\ timeTaken <= 150 THEN timeTaken ELSE 150

Max(a, b) == IF a >= b THEN a ELSE b

Min(a, b) == IF a <= b THEN a ELSE b

\* Math.floor(10 - validTimeTaken) with validTimeTaken in tenths of a second
speedBonus(validTimeTaken) ==
    IF validTimeTaken <= 100 THEN Max(0, (100 - validTimeTaken) \div 10) ELSE 0

\* questionScore of submitAnswer
questionScore(isCorrect, timeTaken) ==
    IF isCorrect THEN 10 + speedBonus(normalizeTimeTaken(timeTaken)) ELSE 0

\* ------------------------------------------------------------------------
\* Questions.  A question is named by a number: 1..999 are records of a
\* weekly pool (ids from uuidv4() in fetchQuestionsFromAPI), 1001..1025 are
\* the records returned by getMockQuestions.  QId / QCorrectAnswer give the
\* fields of the record that the handlers read.
\* ------------------------------------------------------------------------
DigitSeq == <<"0", "1", "2", "3", "4", "5", "6", "7", "8", "9">>

DigitChar(d) == DigitSeq[d + 1]

RECURSIVE NumToStr(_)
NumToStr(n) ==
    IF n < 10 THEN <<DigitChar(n)>>
    ELSE Append(NumToStr(n \div 10), DigitChar(n % 10))

DigitValue(c) == CHOOSE d \in 0..9 : DigitSeq[d + 1] = c

\* the number a decimal numeral denotes
RECURSIVE StrToNum(_)
StrToNum(text) ==
    IF Len(text) = 0 THEN 0
    ELSE 10 * StrToNum(SubSeq(text, 1, Len(text) - 1)) + DigitValue(text[Len(text)])

\* three decimal digits, zero padded
Pad3(n) == <<DigitChar((n \div 100) % 10), DigitChar((n \div 10) % 10), DigitChar(n % 10)>>

\* a version-4 UUID whose last digits are n, tagged by one hex letter
UuidOf(tag, n) ==
    <<tag, "0", "0", "0", "0", "0", "0", "0", "-", "0", "0", "0", "0", "-",
      "4", "0", "0", "0", "-", "8", "0", "0", "0", "-",
      "0", "0", "0", "0", "0", "0", "0", "0", "0">> \o Pad3(n)

\* correct_answer of mock-1 .. mock-25, in the order of the literal
MockAnswers == <<
      <<"A", " ", "t", "i", "m", "e", " ", "p", "i", "e", "c", "e">>,
      <<"F", "O", "X", "D", "I", "E">>,
      <<"M", "a", "o", "r", "i">>,
      <<"1", "9", "8", "5">>,
      <<"5", "3", ",", "5", "9", "4">>,
      <<"Q", "a", "t", "a", "r">>,
      <<"O", "p", "e", "r", "a", "t", "i", "o", "n", " ", "T", "y", "p", "h", "o", "o", "n">>,
      <<"J", "a", "m", "e", "s", " ", "H", "o", "w", "l", "e", "t", "t">>,
      <<"R", "e", "n", "t">>,
      <<"S", "e", "i", "n", "f", "e", "l", "d">>,
      <<"+", "4", "4">>,
      <<"U", "2">>,
      <<"O", "l", "e", " ", "G", "u", "n", "n", "a", "r", " ", "S", "o", "l", "s", "k", "j", "&", "a", "e", "l", "i", "g", ";", "r">>,
      <<"F", "M", "E", "-", "7">>,
      <<"2", "0", "1", "3">>,
      <<"S", "a", "n", "t", "i", "a", "g", "o">>,
      <<"C", "#">>,
      <<"H", "e", "&", "#", "0", "3", "9", ";", "s", " ", "t", "h", "e", " ", "b", "i", "g", " ", "k", "a", "h", "u", "n", "a", ".">>,
      <<"L", "a", "m", "b", "o", "r", "g", "h", "i", "n", "i">>,
      <<"D", "i", "s", "t", "a", "n", "t", " ", "D", "r", "u", "m", "s">>,
      <<"S", "t", "a", "b", " ", "h", "i", "m">>,
      <<"G", "a", "l", "l", "i", "f", "r", "e", "y">>,
      <<"C", "a", "t", "h", "o", "l", "i", "c">>,
      <<"S", "h", "o", "o", "t", " ", "&", "#", "0", "3", "9", ";", "e", "m", " ", "u", "p">>,
      <<"N", "e", "w", " ", "L", "u", "m", "o", "s">>
    >>

\* mock questions have ids "mock-1" .. "mock-25"
MockId(n) == <<"m", "o", "c", "k", "-">> \o NumToStr(n)

getMockQuestions == [i \in 1..Len(MockAnswers) |-> 1000 + i]

\* the answer the trivia API returned for pool question n, after
\* validator.escape: question 6 stands for an answer with an escaped
\* ampersand ("R&amp;B"), the others for answers of letters and digits
PoolAnswer(n) ==
    IF n % 100 = 6 THEN <<"R", "&", "a", "m", "p", ";", "B">>
    ELSE <<"a", "n", "s">> \o NumToStr(n)

IsMock(q) == q > 1000

QId(q) == IF IsMock(q) THEN MockId(q - 1000) ELSE UuidOf("a", q)

QCorrectAnswer(q) == IF IsMock(q) THEN MockAnswers[q - 1000] ELSE PoolAnswer(q)

\* an answer that is no question's correct answer
WrongAnswer == <<"w", "r", "o", "n", "g">>

\* an answer the client cannot send: validateAnswer rejects the apostrophe
QuotedAnswer == <<"i", "t", "'", "s">>

\* ------------------------------------------------------------------------
\* Question rotation service (QuestionService, question-preloader.js:394)
\* ------------------------------------------------------------------------
MinWeeklyQuestions == 100

GameSize == 5

\* the weekly pool stored under a week key, as the preloader wrote it:
\* len records, numbered from base + 1 (current week from 1, previous from 501)
PoolSeq(base, len) == [i \in 1..len |-> base + i]

\* getWeeklyQuestions(weekKey): null when the key is absent or the store fails
getWeeklyQuestions(pools, up, week) ==
    IF up /\ pools[week] > 0
    THEN PoolSeq(IF week = "cur" THEN 0 ELSE 500, pools[week])
    ELSE <<>>

fetchAndCacheQuestions(pools, up) ==
    LET current  == getWeeklyQuestions(pools, up, "cur")
        previous == getWeeklyQuestions(pools, up, "prev")
    IN  IF Len(current) >= MinWeeklyQuestions THEN current
        ELSE IF Len(previous) >= MinWeeklyQuestions THEN previous
        ELSE getMockQuestions

\* one pass of the Fisher-Yates loop body for index i (0-based), with
\* j = Math.floor(Math.random() * (i + 1)); r is Math.random() in thousandths
ShuffleStep(arr, i, r) ==
    LET j == (r * (i + 1)) \div 1000
        swapped == [arr EXCEPT ![i + 1] = arr[j + 1], ![j + 1] = arr[i + 1]]
    IN  IF swapped = arr THEN arr ELSE swapped

\* the loop for i counting down from hi to lo (the upper half of the range
\* first, then the lower half)
RECURSIVE ShuffleFrom(_, _, _, _)
ShuffleFrom(arr, hi, lo, r) ==
    IF hi < lo THEN arr
    ELSE IF hi = lo THEN ShuffleStep(arr, hi, r)
    ELSE LET mid   == (hi + lo) \div 2
             upper == ShuffleFrom(arr, hi, mid + 1, r)
         IN  IF upper = arr THEN ShuffleFrom(arr, mid, lo, r)
             ELSE ShuffleFrom(upper, mid, lo, r)

shuffleArray(array, r) == ShuffleFrom(array, Len(array) - 1, 1, r)

\* the values Math.random() takes in the model (thousandths): 0 and 0.999
RandomValues == {0, 999}

FirstN(s, n) == SubSeq(s, 1, Min(n, Len(s)))

\* getGameQuestions drawing from the whole pool whatever has been seen
getGameQuestionsUnfiltered(allQuestions, seenQuestions, r) ==
    FirstN(shuffleArray(allQuestions, r), GameSize)

\* getGameQuestions with the seen set already fetched
getGameQuestions(allQuestions, seenQuestions, r) ==
    LET unseenQuestions == SelectSeq(allQuestions, LAMBDA q : QId(q) \notin seenQuestions)
    IN  IF Len(unseenQuestions) < GameSize
        THEN FirstN(shuffleArray(allQuestions, r), GameSize)
        ELSE FirstN(shuffleArray(unseenQuestions, r), GameSize)

\* ------------------------------------------------------------------------
\* Store adapter (ValkeyClient, unnamed/part_014:1-351)
\* ------------------------------------------------------------------------
\* JavaScript null, as a value comparable with the records read from the store
Null == [null |-> TRUE]

sanitizeUserId(userId) == StripTo(userId, AlphaNum \cup {"@", ".", "_", "-"}, 100)

sanitizeSessionId(sessionId) == StripTo(sessionId, AlphaNum \cup {"-"}, 50)

sanitizeUsername(username) == StripTo(ToLower(username), LowerCase \cup Digits \cup {"_", "-"}, 20)

sanitizeQuestionIdForSeen(id) == StripTo(id, AlphaNum \cup {"_", "-"}, Len(id))

\* JSON.stringify of a session object: the text holds the members in order,
\* the two numbers as decimal numerals
JSONstringify(data) ==
    <<data.userId, data.sessionId, data.questions,
      NumToStr(data.currentQuestion), NumToStr(data.score)>>

\* JSON.parse of such a text
parseJsonSafely(text) ==
    [userId |-> text[1], sessionId |-> text[2], questions |-> text[3],
     currentQuestion |-> StrToNum(text[4]), score |-> StrToNum(text[5])]

\* getSession: null on a miss and on every store failure
getSession(store, up, sessionId) ==
    LET key == sanitizeSessionId(sessionId)
    IN  IF up /\ key \in DOMAIN store THEN parseJsonSafely(store[key]) ELSE Null

\* setSession / createSession / updateSession: a failure is logged, not thrown
setSession(store, up, sessionId, data) ==
    LET key == sanitizeSessionId(sessionId)
    IN  IF up THEN [k \in DOMAIN store \cup {key} |->
                       IF k = key THEN JSONstringify(data) ELSE store[k]]
        ELSE store

\* deleteSession with the del command sent for the id as it was passed
deleteSessionUnsanitized(store, up, sessionId) ==
    IF up THEN [k \in DOMAIN store \ {sessionId} |-> store[k]] ELSE store

\* deleteSession: a failure is logged, not thrown
deleteSession(store, up, sessionId) ==
    LET key == sanitizeSessionId(sessionId)
    IN  IF up THEN [k \in DOMAIN store \ {key} |-> store[k]] ELSE store

MaxLeaderboardScore == 10000

\* addToLeaderboard: zadd of member `${userId}:${username}` with the clamped score
addToLeaderboard(board, up, score, userId, username) ==
    LET member == <<sanitizeUserId(userId), sanitizeUsername(username)>>
        sanitizedScore == Max(0, Min(MaxLeaderboardScore, score))
    IN  IF up THEN [m \in DOMAIN board \cup {member} |->
                       IF m = member THEN sanitizedScore ELSE board[m]]
        ELSE board

\* storeUsername: set usernames:{username} = userId
storeUsername(names, up, username, userId) ==
    LET key == sanitizeUsername(username)
    IN  IF up THEN [k \in DOMAIN names \cup {key} |->
                       IF k = key THEN userId ELSE names[k]]
        ELSE names

\* getSeenQuestions: [] on failure
getSeenQuestions(seenSets, up, userId) ==
    LET key == sanitizeUserId(userId)
    IN  IF up /\ key \in DOMAIN seenSets THEN seenSets[key] ELSE {}

\* addSeenQuestions: sadd of the sanitized ids; a failure is logged, not thrown
addSeenQuestions(seenSets, up, userId, questionIds) ==
    LET key == sanitizeUserId(userId)
        ids == {sanitizeQuestionIdForSeen(questionIds[i]) : i \in 1..Len(questionIds)}
        old == IF key \in DOMAIN seenSets THEN seenSets[key] ELSE {}
    IN  IF up THEN [k \in DOMAIN seenSets \cup {key} |->
                       IF k = key THEN old \cup ids ELSE seenSets[k]]
        ELSE seenSets

\* ------------------------------------------------------------------------
\* State
\* ------------------------------------------------------------------------
VARIABLES
    sessions,      \* store: session key -> JSON text (valkey:session:{key})
    leaderboard,   \* store: <<userId, username>> -> score, current week's sorted set
    usernames,     \* store: username -> userId (valkey:usernames:{username})
    seen,          \* store: user key -> set of seen question ids
    pools,         \* store: length of the weekly pool under the current / previous week key
    storeUp,       \* the store answers (FALSE: every command fails or times out)
    created,       \* number of session ids uuidv4() has produced in startGame
    inflight,      \* requests suspended at an await: slot -> continuation
    resp,          \* the response most recently returned by a handler
    hist,          \* per session key: accepted answers so far (count, sum of scores, last total)
    raced,         \* session keys on which two requests have overlapped
    overlaps,      \* number of requests that started while another one was suspended
    scoring,       \* a call of the scoring code: its arguments and its result
    variant,       \* which of the rate limiter sources is running
    now,           \* Date.now() in ms
    requests,      \* rate limiter: identifier -> timestamps kept
    lastCleanup,   \* rate limiter: time of the last sweep triggered by a call
    admitted,      \* per identifier: times of all the calls that returned true
    lastCall,      \* the checkRateLimit call most recently made and its result
    lastSet,       \* per session id: the value of the last setSession with that id
    got,           \* the getSession call most recently made and its result
    calls,         \* the adapter / service calls most recently made, with their outcomes
    weekCache,     \* the adapter's memo of getWeekNumber: the day and its week
    conn           \* the adapter's connection: clients created, the one held, isConnected

gameVars == <<sessions, leaderboard, usernames, seen, pools, storeUp, created,
              inflight, resp, hist, raced, overlaps>>

scoreVars == <<scoring>>

limiterVars == <<variant, now, requests, lastCleanup, admitted, lastCall>>

roundTripVars == <<lastSet, got>>

adapterVars == <<calls>>

clientVars == <<weekCache, conn>>

\* what the game flow leaves alone
notGameVars == <<scoreVars, limiterVars, roundTripVars, adapterVars, clientVars>>

None == [none |-> TRUE]

\* the values of the variables a specification does not use
ScoreUnused == scoring = None

LimiterUnused ==
    /\ variant = "none" /\ now = 0 /\ requests = <<>> /\ lastCleanup = 0
    /\ admitted = <<>> /\ lastCall = None

RoundTripUnused == lastSet = <<>> /\ got = None

AdapterUnused == calls = <<>>

ClientUnused == weekCache = None /\ conn = None

\* ------------------------------------------------------------------------
\* Bounds and input sets of the game flow
\* ------------------------------------------------------------------------
\* the session ids uuidv4() hands out, in order
IssuedSessionIds == <<UuidOf("b", 1)>>

\* requests that may start while another request is suspended at an await
MaxOverlaps == 1

Slots == {1, 2}

UserIds == {<<"u", "1">>, <<"u", "2">>}

\* the user who starts games; the other one calls on sessions of the first
Starters == {<<"u", "1">>}

\* a session id with a forbidden character
BadSessionId == <<"<", "b", ">">>

\* session ids a client sends: the issued ones and a malformed one
SessionIdInputs == {IssuedSessionIds[n] : n \in 1..Len(IssuedSessionIds)} \cup {BadSessionId}

CategoryInputs == {<<>>, <<"g", "e", "n", "e", "r", "a", "l">>, <<"m", "o", "v", "i", "e", "s">>}

\* timeTaken values a client sends in the game flow, in tenths of a second
\* (the scoring of every other value is explored under SpecScore)
TimeTakenInputs == {10 * 2}

\* a timeTaken above the 300 s that validation admits
BadTimeTaken == 10 * 300 + 1

\* the timeTaken of the end-to-end scenario: 2 s
ScriptTimeTaken == 10 * 2

validCategories == {<<"g", "e", "n", "e", "r", "a", "l">>, <<"s", "c", "i", "e", "n", "c", "e">>,
                    <<"h", "i", "s", "t", "o", "r", "y">>, <<"s", "p", "o", "r", "t", "s">>,
                    <<"e", "n", "t", "e", "r", "t", "a", "i", "n", "m", "e", "n", "t">>}

TOTAL_QUESTIONS == 5

Idle == [op |-> "idle"]

NoError == <<>>

\* a response: HTTP status and the fields of the JSON body the claims read;
\* scripted and mismatch describe the request that is answered (set where
\* the request is received)
NoResponse ==
    [op |-> "none", status |-> 0, error |-> NoError, user |-> <<>>, key |-> <<>>,
     correct |-> FALSE, score |-> 0, totalScore |-> 0, next |-> 0,
     gameComplete |-> FALSE, questions |-> 0,
     scripted |-> FALSE, mismatch |-> FALSE]

Response(op, status, error, user, key) ==
    [NoResponse EXCEPT !.op = op, !.status = status, !.error = error,
                       !.user = user, !.key = key]

NoHist == [count |-> 0, sum |-> 0, lastTotal |-> 0]

HistOf(key) == IF key \in DOMAIN hist THEN hist[key] ELSE NoHist

Init ==
    /\ sessions = <<>>
    /\ leaderboard = <<>>
    /\ usernames = <<>>
    /\ seen = <<>>
    /\ pools \in {[cur |-> 0, prev |-> 0], [cur |-> MinWeeklyQuestions, prev |-> 0]}
    /\ storeUp = TRUE
    /\ created = 0
    /\ inflight = [s \in Slots |-> Idle]
    /\ resp = NoResponse
    /\ hist = <<>>
    /\ raced = {}
    /\ overlaps = 0
    /\ ScoreUnused /\ LimiterUnused /\ RoundTripUnused /\ AdapterUnused /\ ClientUnused

\* ------------------------------------------------------------------------
\* startGame (index.js:614-689)
\* ------------------------------------------------------------------------
\* /<|>|script|javascript|eval|function/i
CategoryContentBad(category) ==
    \/ Contains(category, <<"<">>) \/ Contains(category, <<">">>)
    \/ ContainsNoCase(category, <<"s", "c", "r", "i", "p", "t">>)
    \/ ContainsNoCase(category, <<"j", "a", "v", "a", "s", "c", "r", "i", "p", "t">>)
    \/ ContainsNoCase(category, <<"e", "v", "a", "l">>)
    \/ ContainsNoCase(category, <<"f", "u", "n", "c", "t", "i", "o", "n">>)

categoryError(category) ==
    IF Len(category) = 0 THEN NoError
    ELSE IF Len(category) > 50 THEN <<"Invalid category format">>
    ELSE IF CategoryContentBad(category) THEN <<"Invalid category content">>
    ELSE IF ToLower(category) \notin validCategories THEN <<"Unsupported category">>
    ELSE NoError

\* the session object startGame builds (startTime and the shuffled options
\* are never read back by a handler and are left out)
NewSession(userId, sessionId, questions) ==
    [userId |-> userId, sessionId |-> sessionId, questions |-> questions,
     currentQuestion |-> 0, score |-> 0]

StartGame(userId, category, r) ==
    /\ created < Len(IssuedSessionIds)
    /\ IF categoryError(category) # NoError
       THEN /\ resp' = Response("start", 400, categoryError(category), userId, <<>>)
            /\ UNCHANGED <<sessions, seen, created>>
       ELSE LET sessionId == IssuedSessionIds[created + 1]
                questions == getGameQuestions(fetchAndCacheQuestions(pools, storeUp),
                                              getSeenQuestions(seen, storeUp, userId), r)
                ids       == [i \in 1..Len(questions) |-> QId(questions[i])]
            IN  /\ seen' = addSeenQuestions(seen, storeUp, userId, ids)
                /\ sessions' = setSession(sessions, storeUp, sessionId,
                                          NewSession(userId, sessionId, questions))
                /\ created' = created + 1
                /\ resp' = [Response("start", 200, NoError, userId, sanitizeSessionId(sessionId))
                               EXCEPT !.next = 1, !.questions = Len(questions)]
    /\ UNCHANGED <<leaderboard, usernames, pools, storeUp, inflight, hist, raced, overlaps>>
    /\ UNCHANGED notGameVars

\* ------------------------------------------------------------------------
\* submitAnswer (index.js:691-818)
\* ------------------------------------------------------------------------
\* the checks made before the store is read
submitInputError(requestData) ==
    IF ~validateSessionData(requestData).valid
        THEN <<"Invalid request data">>
    ELSE IF ~validateSessionId(requestData.sessionId) THEN <<"Invalid session ID">>
    ELSE IF ~validateQuestionId(requestData.questionId) THEN <<"Invalid question ID">>
    ELSE IF ~validateAnswer(requestData.answer) THEN <<"Invalid answer format">>
    ELSE IF ~isValidTimeTaken(requestData.timeTaken) THEN <<"Invalid time taken">>
    ELSE NoError

\* submitSessionError without the comparison of the question id
submitSessionErrorAnyQuestion(userId, requestData, session) ==
    IF session = Null THEN <<"Invalid session">>
    ELSE IF session.userId # userId THEN <<"Invalid session">>
    ELSE IF session.currentQuestion >= Len(session.questions)
        THEN <<"Invalid question index">>
    ELSE NoError

\* the checks made on the session that was read
submitSessionError(userId, requestData, session) ==
    IF session = Null THEN <<"Invalid session">>
    ELSE IF session.userId # userId THEN <<"Invalid session">>
    ELSE IF session.currentQuestion >= Len(session.questions)
        THEN <<"Invalid question index">>
    ELSE IF requestData.questionId # QId(session.questions[session.currentQuestion + 1])
        THEN <<"Question ID does not match current question">>
    ELSE NoError

\* AnsweredSession without currentQuestion++
AnsweredSessionStuck(requestData, session) ==
    LET currentQuestion == session.questions[session.currentQuestion + 1]
        isCorrect == requestData.answer = QCorrectAnswer(currentQuestion)
    IN  [session EXCEPT !.score = @ + questionScore(isCorrect, requestData.timeTaken)]

\* the session after the answer: score accumulated, index advanced
AnsweredSession(requestData, session) ==
    LET currentQuestion == session.questions[session.currentQuestion + 1]
        isCorrect == requestData.answer = QCorrectAnswer(currentQuestion)
    IN  [session EXCEPT !.score = @ + questionScore(isCorrect, requestData.timeTaken),
                        !.currentQuestion = @ + 1]

\* AnswerResponse reporting the total of the session as it was read
AnswerResponseStaleTotal(userId, key, requestData, session) ==
    LET currentQuestion == session.questions[session.currentQuestion + 1]
        isCorrect == requestData.answer = QCorrectAnswer(currentQuestion)
        after     == AnsweredSession(requestData, session)
        more      == after.currentQuestion < Len(after.questions)
    IN  [Response("submit", 200, NoError, userId, key) EXCEPT
            !.correct = isCorrect,
            !.score = questionScore(isCorrect, requestData.timeTaken),
            !.totalScore = session.score,
            !.next = IF more THEN after.currentQuestion + 1 ELSE 0,
            !.gameComplete = ~more]

\* AnswerResponse that announces a next question after every answer
AnswerResponseNeverComplete(userId, key, requestData, session) ==
    LET currentQuestion == session.questions[session.currentQuestion + 1]
        isCorrect == requestData.answer = QCorrectAnswer(currentQuestion)
        after     == AnsweredSession(requestData, session)
    IN  [Response("submit", 200, NoError, userId, key) EXCEPT
            !.correct = isCorrect,
            !.score = questionScore(isCorrect, requestData.timeTaken),
            !.totalScore = after.score,
            !.next = after.currentQuestion + 1,
            !.gameComplete = FALSE]

\* the 200 response built from the session read and the answered session
AnswerResponse(userId, key, requestData, session) ==
    LET currentQuestion == session.questions[session.currentQuestion + 1]
        isCorrect == requestData.answer = QCorrectAnswer(currentQuestion)
        after     == AnsweredSession(requestData, session)
        more      == after.currentQuestion < Len(after.questions)
    IN  [Response("submit", 200, NoError, userId, key) EXCEPT
            !.correct = isCorrect,
            !.score = questionScore(isCorrect, requestData.timeTaken),
            !.totalScore = after.score,
            !.next = IF more THEN after.currentQuestion + 1 ELSE 0,
            !.gameComplete = ~more]

\* the request of the end-to-end scenario: the owner answers the current
\* question of a stored session with its stored correct answer in 2 s
Scripted(userId, requestData) ==
    LET key == sanitizeSessionId(requestData.sessionId)
    IN  /\ validateSessionId(requestData.sessionId)
        /\ key \in DOMAIN sessions
        /\ LET session == parseJsonSafely(sessions[key])
           IN  /\ session.userId = userId
               /\ session.currentQuestion < Len(session.questions)
               /\ requestData.questionId = QId(session.questions[session.currentQuestion + 1])
               /\ requestData.answer = QCorrectAnswer(session.questions[session.currentQuestion + 1])
               /\ requestData.timeTaken = ScriptTimeTaken

AnyBusy == \E t \in Slots : inflight[t] # Idle

\* the request names a question other than the one at the current index of
\* the stored session
Mismatch(requestData) ==
    LET key == sanitizeSessionId(requestData.sessionId)
    IN  /\ key \in DOMAIN sessions
        /\ LET session == parseJsonSafely(sessions[key])
           IN  /\ session.currentQuestion < Len(session.questions)
               /\ requestData.questionId # QId(session.questions[session.currentQuestion + 1])

\* the lowest free slot; a request that would overlap needs budget
FreeSlot(slot) ==
    /\ inflight[slot] = Idle
    /\ \A t \in Slots : t < slot => inflight[t] # Idle
    /\ AnyBusy => overlaps < MaxOverlaps

BusyOn(key) == \E t \in Slots : inflight[t] # Idle /\ inflight[t].key = key

\* from the call to the await of updateSession
SubmitAnswerBegin(slot, userId, requestData) ==
    /\ FreeSlot(slot)
    /\ LET key         == sanitizeSessionId(requestData.sessionId)
           inputError  == submitInputError(requestData)
           session     == getSession(sessions, storeUp, requestData.sessionId)
           sessionError == submitSessionError(userId, requestData, session)
           scripted    == Scripted(userId, requestData)
           mismatch    == Mismatch(requestData)
       IN  IF inputError # NoError
           THEN /\ resp' = [Response("submit", 400, inputError, userId, key)
                               EXCEPT !.scripted = scripted, !.mismatch = mismatch]
                /\ UNCHANGED <<inflight, raced, overlaps>>
           ELSE IF sessionError # NoError
           THEN /\ resp' = [Response("submit", 400, sessionError, userId, key)
                               EXCEPT !.scripted = scripted, !.mismatch = mismatch]
                /\ UNCHANGED <<inflight, raced, overlaps>>
           ELSE /\ inflight' = [inflight EXCEPT ![slot] =
                        [op |-> "submit", pc |-> "update", user |-> userId,
                         sessionId |-> requestData.sessionId, key |-> key,
                         read |-> session,
                         session |-> AnsweredSession(requestData, session),
                         response |-> [AnswerResponse(userId, key, requestData, session)
                                          EXCEPT !.scripted = scripted,
                                                 !.mismatch = mismatch]]]
                /\ raced' = IF BusyOn(key) THEN raced \cup {key} ELSE raced
                /\ overlaps' = IF AnyBusy THEN overlaps + 1 ELSE overlaps
                /\ UNCHANGED resp
    /\ UNCHANGED <<sessions, leaderboard, usernames, seen, pools, storeUp, created, hist>>
    /\ UNCHANGED notGameVars

\* SubmitAnswerEnd with a write that is conditional on the session still
\* being the one that was read
SubmitAnswerEndCompareAndSet(slot) ==
    /\ inflight[slot] # Idle
    /\ inflight[slot].op = "submit"
    /\ LET c     == inflight[slot]
           h     == HistOf(c.key)
           fresh == getSession(sessions, storeUp, c.sessionId) = c.read
       IN  IF fresh
           THEN /\ sessions' = setSession(sessions, storeUp, c.sessionId, c.session)
                /\ resp' = c.response
                /\ hist' = [k \in DOMAIN hist \cup {c.key} |->
                               IF k = c.key
                               THEN [count |-> h.count + 1, sum |-> h.sum + c.response.score,
                                     lastTotal |-> c.response.totalScore]
                               ELSE hist[k]]
           ELSE /\ resp' = Response("submit", 409, <<"Conflict">>, c.user, c.key)
                /\ UNCHANGED <<sessions, hist>>
    /\ inflight' = [inflight EXCEPT ![slot] = Idle]
    /\ UNCHANGED <<leaderboard, usernames, seen, pools, storeUp, created, raced, overlaps>>
    /\ UNCHANGED notGameVars

\* updateSession resolves and the 200 response is returned
SubmitAnswerEnd(slot) ==
    /\ inflight[slot] # Idle
    /\ inflight[slot].op = "submit"
    /\ LET c == inflight[slot]
           h == HistOf(c.key)
       IN  /\ sessions' = setSession(sessions, storeUp, c.sessionId, c.session)
           /\ resp' = c.response
           /\ hist' = [k \in DOMAIN hist \cup {c.key} |->
                          IF k = c.key
                          THEN [count |-> h.count + 1, sum |-> h.sum + c.response.score,
                                lastTotal |-> c.response.totalScore]
                          ELSE hist[k]]
    /\ inflight' = [inflight EXCEPT ![slot] = Idle]
    /\ UNCHANGED <<leaderboard, usernames, seen, pools, storeUp, created, raced, overlaps>>
    /\ UNCHANGED notGameVars

\* ------------------------------------------------------------------------
\* endSession (index.js:820-899)
\* ------------------------------------------------------------------------
\* jwt is not bound in this file, so jwt.decode throws inside the try block
\* and the catch leaves the display name at its default
DisplayName == <<"P", "l", "a", "y", "e", "r">>

\* EndSessionBegin without the comparison of the session's user
EndSessionBeginAnyUser(slot, userId, sessionId) ==
    /\ FreeSlot(slot)
    /\ LET key     == sanitizeSessionId(sessionId)
           session == getSession(sessions, storeUp, sessionId)
       IN  IF ~validateSessionId(sessionId)
           THEN /\ resp' = Response("end", 400, <<"Invalid session ID">>, userId, key)
                /\ UNCHANGED <<inflight, raced, overlaps>>
           ELSE IF session = Null
           THEN /\ resp' = Response("end", 400, <<"Invalid session">>, userId, key)
                /\ UNCHANGED <<inflight, raced, overlaps>>
           ELSE /\ inflight' = [inflight EXCEPT ![slot] =
                        [op |-> "end", pc |-> "record", user |-> userId,
                         sessionId |-> sessionId, key |-> key, read |-> session,
                         session |-> session,
                         response |-> [Response("end", 200, NoError, userId, key)
                                          EXCEPT !.totalScore = session.score]]]
                /\ raced' = IF BusyOn(key) THEN raced \cup {key} ELSE raced
                /\ overlaps' = IF AnyBusy THEN overlaps + 1 ELSE overlaps
                /\ UNCHANGED resp
    /\ UNCHANGED <<sessions, leaderboard, usernames, seen, pools, storeUp, created, hist>>
    /\ UNCHANGED notGameVars

\* from the call to the await of Promise.all
EndSessionBegin(slot, userId, sessionId) ==
    /\ FreeSlot(slot)
    /\ LET key     == sanitizeSessionId(sessionId)
           session == getSession(sessions, storeUp, sessionId)
       IN  IF ~validateSessionId(sessionId)
           THEN /\ resp' = Response("end", 400, <<"Invalid session ID">>, userId, key)
                /\ UNCHANGED <<inflight, raced, overlaps>>
           ELSE IF session = Null \/ session.userId # userId
           THEN /\ resp' = Response("end", 400, <<"Invalid session">>, userId, key)
                /\ UNCHANGED <<inflight, raced, overlaps>>
           ELSE /\ inflight' = [inflight EXCEPT ![slot] =
                        [op |-> "end", pc |-> "record", user |-> userId,
                         sessionId |-> sessionId, key |-> key, read |-> session,
                         session |-> session,
                         response |-> [Response("end", 200, NoError, userId, key)
                                          EXCEPT !.totalScore = session.score]]]
                /\ raced' = IF BusyOn(key) THEN raced \cup {key} ELSE raced
                /\ overlaps' = IF AnyBusy THEN overlaps + 1 ELSE overlaps
                /\ UNCHANGED resp
    /\ UNCHANGED <<sessions, leaderboard, usernames, seen, pools, storeUp, created, hist>>
    /\ UNCHANGED notGameVars

\* Promise.all([addToLeaderboard, storeUsername]) resolves
EndSessionRecord(slot) ==
    /\ inflight[slot] # Idle
    /\ inflight[slot].op = "end" /\ inflight[slot].pc = "record"
    /\ LET c == inflight[slot]
       IN  /\ leaderboard' = addToLeaderboard(leaderboard, storeUp, c.session.score,
                                              c.user, DisplayName)
           /\ usernames' = storeUsername(usernames, storeUp, DisplayName, c.user)
    /\ inflight' = [inflight EXCEPT ![slot].pc = "delete"]
    /\ UNCHANGED <<sessions, seen, pools, storeUp, created, resp, hist, raced, overlaps>>
    /\ UNCHANGED notGameVars

\* the finally block: deleteSession resolves, then the response is returned
EndSessionFinish(slot) ==
    /\ inflight[slot] # Idle
    /\ inflight[slot].op = "end" /\ inflight[slot].pc = "delete"
    /\ sessions' = deleteSession(sessions, storeUp, inflight[slot].sessionId)
    /\ resp' = inflight[slot].response
    /\ inflight' = [inflight EXCEPT ![slot] = Idle]
    /\ UNCHANGED <<leaderboard, usernames, seen, pools, storeUp, created, hist, raced, overlaps>>
    /\ UNCHANGED notGameVars

\* ------------------------------------------------------------------------
\* Requests a client can send in the current state
\* ------------------------------------------------------------------------
\* a question id of no accepted format
BadQuestionId == <<"b", "a", "d">>

StoredSessions == {parseJsonSafely(sessions[k]) : k \in DOMAIN sessions}

\* well-formed requests for a stored session: its id, the id of the question
\* at the current index, of the one before it or of the one after it, the
\* current question's stored correct answer or a wrong answer
WellFormedRequests ==
    UNION {{[sessionId |-> session.sessionId,
             questionId |-> QId(session.questions[i]),
             answer |-> answer, timeTaken |-> timeTaken] :
               i \in {j \in 1..Len(session.questions) :
                         j >= session.currentQuestion /\ j <= session.currentQuestion + 2},
               answer \in {QCorrectAnswer(session.questions[
                              Min(session.currentQuestion + 1, Len(session.questions))]),
                           WrongAnswer},
               timeTaken \in TimeTakenInputs}
           : session \in StoredSessions}

\* the correct answer to the current question with one field replaced by a
\* malformed value
MalformedRequests ==
    UNION {{[req EXCEPT !.sessionId = BadSessionId],
            [req EXCEPT !.questionId = BadQuestionId],
            [req EXCEPT !.answer = QuotedAnswer],
            [req EXCEPT !.timeTaken = BadTimeTaken]}
           : req \in {r \in WellFormedRequests : \E userId \in UserIds : Scripted(userId, r)}}

\* requests for a session that is complete or not stored
StrayRequests ==
    {[sessionId |-> sid, questionId |-> QId(1), answer |-> WrongAnswer,
      timeTaken |-> ScriptTimeTaken] : sid \in SessionIdInputs \ {BadSessionId}}

SubmitRequests == WellFormedRequests \cup MalformedRequests \cup StrayRequests

Next ==
    \/ \E userId \in Starters, category \in CategoryInputs, r \in RandomValues :
          StartGame(userId, category, r)
    \/ \E slot \in Slots, userId \in UserIds, requestData \in SubmitRequests :
          SubmitAnswerBegin(slot, userId, requestData)
    \/ \E slot \in Slots : SubmitAnswerEnd(slot)
    \/ \E slot \in Slots, userId \in UserIds, sessionId \in SessionIdInputs :
          EndSessionBegin(slot, userId, sessionId)
    \/ \E slot \in Slots : EndSessionRecord(slot)
    \/ \E slot \in Slots : EndSessionFinish(slot)

vars == <<gameVars, notGameVars>>

Spec == Init /\ [][Next]_vars

\* ------------------------------------------------------------------------
\* Properties of the game flow
\* ------------------------------------------------------------------------
Stored(key) == parseJsonSafely(sessions[key])

\* an accepted submit-answer on the session completes in this step
AnswerAccepted(key) == HistOf(key)'.count = HistOf(key).count + 1

\* a suspended request completes in this step
Completes(slot) == inflight[slot] # Idle /\ inflight'[slot] = Idle

\* a response is returned in this step (a step that returns the response
\* already held and changes nothing else is a stuttering step)
Returned == resp' # resp \/ \E slot \in Slots : Completes(slot)

\* the store is written only by startGame and by requests that were
\* suspended after passing their checks
OnlyAdmittedWrite ==
    /\ sessions' # sessions => (created' # created \/ \E slot \in Slots : Completes(slot))
    /\ <<leaderboard', usernames'>> # <<leaderboard, usernames>>
       => \E slot \in Slots : inflight[slot] # Idle /\ inflight[slot].op = "end"

\* every suspended request is one of the user stored in the session it read
OwnerOnly ==
    \A slot \in Slots :
        inflight[slot] # Idle => inflight[slot].user = inflight[slot].read.userId

\* no suspended submit-answer names another question than the current one
\* of the session it read
MatchedOnly ==
    \A slot \in Slots :
        (inflight[slot] # Idle /\ inflight[slot].op = "submit")
        => ~inflight[slot].response.mismatch

C1_Bounds ==
    \A k \in DOMAIN sessions :
        /\ Stored(k).currentQuestion >= 0
        /\ Stored(k).currentQuestion <= Len(Stored(k).questions)

C1_Serial ==
    /\ \A k \in DOMAIN sessions :
          k \notin raced =>
              IF AnswerAccepted(k)
              THEN /\ resp'.status = 200
                   /\ k \in DOMAIN sessions'
                   /\ Stored(k)'.currentQuestion = Stored(k).currentQuestion + 1
              ELSE k \in DOMAIN sessions' =>
                       Stored(k)'.currentQuestion = Stored(k).currentQuestion
    /\ (Returned /\ resp'.op = "submit" /\ resp'.status # 200) => sessions' = sessions
    /\ OnlyAdmittedWrite

InputErrors ==
    {<<"Invalid request data">>, <<"Invalid session ID">>, <<"Invalid question ID">>,
     <<"Invalid answer format">>, <<"Invalid time taken">>}

C2_Foreign ==
    (/\ Returned
     /\ resp'.op \in {"submit", "end"}
     /\ resp'.key \in DOMAIN sessions
     /\ Stored(resp'.key).userId # resp'.user)
    => /\ resp'.status = 400
       /\ resp'.error \in {<<"Invalid session">>} \cup InputErrors
       /\ UNCHANGED <<sessions, leaderboard, usernames>>

\* C2: a submit-answer or end-session answered for a user other than the one
\* stored in the session is answered with 400 (with 'Invalid session' once
\* the request has passed input validation), and the step that answers it
\* changes neither the session nor the leaderboard nor the stored usernames:
\* only requests of the session's own user get past the check, and only
\* requests that got past it write.
C2_ForeignUserRejected == []OwnerOnly /\ [][C2_Foreign /\ OnlyAdmittedWrite]_vars

\* the second user's end-session on the first user's session, which holds
\* points, has been rejected
C2_Witness ==
    /\ resp.op = "end" /\ resp.status = 400 /\ resp.error = <<"Invalid session">>
    /\ resp.key \in DOMAIN sessions
    /\ Stored(resp.key).userId # resp.user
    /\ Stored(resp.key).score > 0

C3_Mismatch ==
    (Returned /\ resp'.op = "submit" /\ resp'.mismatch)
    => (resp'.status = 400 /\ sessions' = sessions)

C3_Once ==
    \A k \in DOMAIN sessions :
        k \notin raced => HistOf(k).count = Stored(k).currentQuestion

C5_Sum ==
    \A k \in DOMAIN sessions : k \notin raced => Stored(k).score = HistOf(k).sum

C5_Step ==
    \A k \in DOMAIN hist' :
        (k \notin raced /\ AnswerAccepted(k))
        => /\ resp'.totalScore = HistOf(k)'.sum
           /\ resp'.totalScore = HistOf(k).lastTotal + resp'.score
           /\ resp'.totalScore >= HistOf(k).lastTotal
           /\ k \in DOMAIN sessions' /\ Stored(k)'.score = resp'.totalScore

C6_EndToEnd ==
    /\ (resp.op = "start" /\ resp.status = 200) => resp.questions = TOTAL_QUESTIONS
    /\ (resp.op = "submit" /\ resp.scripted)
       => /\ resp.status = 200 /\ resp.correct /\ resp.score = 18
          /\ (resp.key \notin raced /\ HistOf(resp.key).sum = 18 * HistOf(resp.key).count)
             => (resp.gameComplete <=> resp.totalScore = 90)
    /\ (resp.op = "end" /\ resp.status = 200 /\ resp.key \notin raced)
       => /\ resp.key \notin DOMAIN sessions
          /\ \E m \in DOMAIN leaderboard : leaderboard[m] = resp.totalScore

C7_Unconditional ==
    \A slot \in Slots :
        (inflight[slot] # Idle /\ inflight[slot].op = "submit" /\ inflight'[slot] = Idle)
        => LET c == inflight[slot]
           IN  /\ resp'.status = 200
               /\ c.key \in DOMAIN sessions'
               /\ parseJsonSafely(sessions'[c.key]) = [c.read EXCEPT !.currentQuestion = @ + 1,
                                                               !.score = @ + resp'.score]

C7_IndexBehind ==
    \A k \in DOMAIN sessions : Stored(k).currentQuestion <= HistOf(k).count

\* C7: a submit-answer that passed its checks is accepted and writes the
\* session it read, advanced by one, whatever the store holds by then; so
\* two requests for the same question that both read before either writes
\* are both accepted while the index advances by one only (the index never
\* exceeds the number of accepted answers and can fall behind it).
C7_LostUpdate == []C7_IndexBehind /\ [][C7_Unconditional]_vars

\* two answers accepted for a session whose index stands at 1
C7_Witness ==
    \E k \in DOMAIN sessions :
        /\ k \in raced
        /\ HistOf(k).count = 2
        /\ Stored(k).currentQuestion = 1

\* an element of sessionData.questions as startGame builds it; the text is
\* named by the question's number, the options are the correct answer mixed
\* with incorrect ones
SessionQuestion(q) ==
    [id |-> QId(q), question |-> q, options |-> {QCorrectAnswer(q), WrongAnswer},
     correct_answer |-> QCorrectAnswer(q)]

\* the question / nextQuestion member of a 200 response: the element of the
\* session's questions at the question number the response announces
QuestionSent(session, questionNumber) == SessionQuestion(session.questions[questionNumber])

C15_Step ==
    (/\ Returned
     /\ resp'.op \in {"start", "submit"}
     /\ resp'.status = 200
     /\ resp'.next > 0
     /\ resp'.key \in DOMAIN sessions')
    => LET sent == QuestionSent(parseJsonSafely(sessions'[resp'.key]), resp'.next)
       IN  /\ "options" \in DOMAIN sent
           /\ "correct_answer" \notin DOMAIN sent

\* C15: the question object of a start-game response and the nextQuestion
\* object of a submit-answer response, which describe a question the caller
\* has not answered yet, carry the options and no correct_answer member.
C15_NoAnswerKey == [][C15_Step]_vars

\* ------------------------------------------------------------------------
\* The scoring code on its own (index.js:436-441, 773-783, 989-991)
\* ------------------------------------------------------------------------
\* the largest timeTaken explored one by one, in tenths of a second
MaxTimeTaken == 160

\* timeTaken values, in tenths of a second: every tenth up to MaxTimeTaken,
\* then the bounds of what validation admits
TimeTakenValues == 0..MaxTimeTaken \cup {2999, 3000, 3001}

InitScore ==
    /\ scoring \in [isCorrect : BOOLEAN, timeTaken : TimeTakenValues,
                    returned : {FALSE}, valid : {FALSE}, questionScore : {0}]
    /\ sessions = <<>> /\ leaderboard = <<>> /\ usernames = <<>> /\ seen = <<>>
    /\ pools = [cur |-> 0, prev |-> 0] /\ storeUp = TRUE /\ created = 0
    /\ inflight = [s \in Slots |-> Idle] /\ resp = NoResponse
    /\ hist = <<>> /\ raced = {} /\ overlaps = 0
    /\ LimiterUnused /\ RoundTripUnused /\ AdapterUnused /\ ClientUnused

\* submitAnswer from the check of timeTaken to the computed questionScore
ScoreAnswer ==
    /\ ~scoring.returned
    /\ scoring' = [scoring EXCEPT
                      !.returned = TRUE,
                      !.valid = isValidTimeTaken(scoring.timeTaken),
                      !.questionScore =
                          IF isValidTimeTaken(scoring.timeTaken)
                          THEN questionScore(scoring.isCorrect, scoring.timeTaken)
                          ELSE 0]
    /\ UNCHANGED <<gameVars, limiterVars, roundTripVars, adapterVars, clientVars>>

NextScore == ScoreAnswer

SpecScore == InitScore /\ [][NextScore]_vars

\* C4: a correct answer is awarded 10 + max(0, floor(10 - timeTaken)) points
\* when timeTaken is in [0, 10] s and exactly 10 points when it is above 10 s
\* (so 20 at 0 s, 10 at 10 s, 10 at 15 s); a wrong answer is awarded 0.
C4_Scoring ==
    (scoring.returned /\ scoring.valid)
    => scoring.questionScore =
           IF ~scoring.isCorrect THEN 0
           ELSE IF scoring.timeTaken <= 100
                THEN 10 + Max(0, (100 - scoring.timeTaken) \div 10)
                ELSE 10

\* ------------------------------------------------------------------------
\* The rate limiter (rate-limiter.js, unnamed/part_011, part_012, part_013,
\* and the function at the top of index.js)
\* ------------------------------------------------------------------------
Variants == {"rate-limiter.js", "part_011", "part_012", "part_013", "index.js"}

\* the variants that are a class with a cleanup() method
ClassVariants == Variants \ {"index.js"}

\* config.rateLimit, maxRequests and RATE_LIMIT are 100 in the source; the
\* limit is scaled down here
rateLimit == 2

\* config.rateLimitWindow, windowMs and RATE_WINDOW
rateLimitWindow == 60000

cleanupThreshold == 60000

\* this.maxSize is 10000 in the source; the size is scaled down here
maxSize == 2

\* Date.now() advances in steps of TickMs, MaxTicks times
TickMs == 30000

MaxTicks == 3

anonymous == <<"a", "n", "o", "n", "y", "m", "o", "u", "s">>

\* identifiers passed to checkRateLimit: a user id and the empty string
Identifiers == {<<"u", "1">>, <<>>}

MapGet(map, key) == IF key \in DOMAIN map THEN map[key] ELSE <<>>

MapSet(map, key, value) ==
    [k \in DOMAIN map \cup {key} |-> IF k = key THEN value ELSE map[k]]

\* requests.filter(timestamp => timestamp > windowStart)
filterRecent(userRequests, time) ==
    SelectSeq(userRequests, LAMBDA timestamp : timestamp > time - rateLimitWindow)

\* userRequests.filter(time => now - time < RATE_WINDOW)
filterYounger(userRequests, time) ==
    SelectSeq(userRequests, LAMBDA timestamp : time - timestamp < rateLimitWindow)

\* part_013: the index of the first entry inside the window, 0 if there is none
validStart(userRequests, time) ==
    LET inside == {i \in 1..Len(userRequests) : userRequests[i] > time - rateLimitWindow}
    IN  IF inside = {} THEN 0
        ELSE (CHOOSE i \in inside : \A j \in inside : i <= j) - 1

\* userRequests.slice(validStart)
sliceFromValidStart(userRequests, time) ==
    SubSeq(userRequests, validStart(userRequests, time) + 1, Len(userRequests))

\* cleanup(): every list filtered, empty lists deleted
cleanup(map, time) ==
    LET kept == {k \in DOMAIN map : filterRecent(map[k], time) # <<>>}
    IN  [k \in kept |-> filterRecent(map[k], time)]

AtLimitLax(count) == count > rateLimit

\* recentRequests.length >= config.rateLimit
AtLimit(count) == count >= rateLimit

\* the maxSize guard that follows an accepted call
sizeGuard(map, time) ==
    IF Cardinality(DOMAIN map) > maxSize THEN cleanup(map, time) ELSE map

\* rate-limiter.js:8-38; sweep is the outcome of Math.random() < 0.01
checkRateLimitMain(map, identifier, time, sweep) ==
    LET id            == IF identifier = <<>> THEN anonymous ELSE identifier
        present       == IF id \in DOMAIN map THEN map ELSE MapSet(map, id, <<>>)
        validRequests == filterRecent(present[id], time)
        stored        == MapSet(present, id, Append(validRequests, time))
    IN  IF AtLimit(Len(validRequests))
        THEN [allowed |-> FALSE, requests |-> present]
        ELSE [allowed |-> TRUE,
              requests |-> IF sweep THEN cleanup(stored, time) ELSE stored]

\* part_011:11-31
checkRateLimit011(map, userId, time) ==
    LET recentRequests == filterYounger(MapGet(map, userId), time)
    IN  IF AtLimit(Len(recentRequests))
        THEN [allowed |-> FALSE, requests |-> map]
        ELSE [allowed |-> TRUE,
              requests |-> sizeGuard(MapSet(map, userId, Append(recentRequests, time)), time)]

\* the sweep a call triggers in part_012 and part_013
sweepDue(time, last) == time - last > cleanupThreshold

\* checkRateLimit of part_012 pushing the timestamp before the length check
checkRateLimit012Recording(map, userId, time, last) ==
    LET swept  == IF sweepDue(time, last) THEN cleanup(map, time) ELSE map
        pruned == filterRecent(MapGet(swept, userId), time)
        pushed == MapSet(swept, userId, Append(pruned, time))
    IN  IF AtLimit(Len(pruned))
        THEN [allowed |-> FALSE, requests |-> pushed]
        ELSE [allowed |-> TRUE, requests |-> sizeGuard(pushed, time)]

\* part_012:11-45; the list is pruned in place, so a list that is in the map
\* stays pruned when the call is rejected
checkRateLimit012(map, userId, time, last) ==
    LET swept  == IF sweepDue(time, last) THEN cleanup(map, time) ELSE map
        pruned == filterRecent(MapGet(swept, userId), time)
        inPlace == IF userId \in DOMAIN swept THEN MapSet(swept, userId, pruned) ELSE swept
    IN  IF AtLimit(Len(pruned))
        THEN [allowed |-> FALSE, requests |-> inPlace]
        ELSE [allowed |-> TRUE,
              requests |-> sizeGuard(MapSet(inPlace, userId, Append(pruned, time)), time)]

\* part_013:11-47
checkRateLimit013(map, userId, time, last) ==
    LET swept          == IF sweepDue(time, last) THEN cleanup(map, time) ELSE map
        recentRequests == sliceFromValidStart(MapGet(swept, userId), time)
    IN  IF AtLimit(Len(recentRequests))
        THEN [allowed |-> FALSE, requests |-> swept]
        ELSE [allowed |-> TRUE,
              requests |-> sizeGuard(MapSet(swept, userId, Append(recentRequests, time)), time)]

\* index.js:27-41
checkRateLimitIndex(map, userId, time) ==
    LET recentRequests == filterYounger(MapGet(map, userId), time)
    IN  IF AtLimit(Len(recentRequests))
        THEN [allowed |-> FALSE, requests |-> map]
        ELSE [allowed |-> TRUE, requests |-> MapSet(map, userId, Append(recentRequests, time))]

\* checkRateLimit of the variant that is running, on a given map
checkRateLimitOn(map, identifier, sweep) ==
    CASE variant = "rate-limiter.js" -> checkRateLimitMain(map, identifier, now, sweep)
      [] variant = "part_011" -> checkRateLimit011(map, identifier, now)
      [] variant = "part_012" -> checkRateLimit012(map, identifier, now, lastCleanup)
      [] variant = "part_013" -> checkRateLimit013(map, identifier, now, lastCleanup)
      [] variant = "index.js" -> checkRateLimitIndex(map, identifier, now)

checkRateLimit(identifier, sweep) == checkRateLimitOn(requests, identifier, sweep)

InitLimiter ==
    /\ variant \in Variants
    /\ now = 0
    /\ requests = <<>>
    /\ lastCleanup = 0
    /\ admitted = <<>>
    /\ lastCall = None
    /\ sessions = <<>> /\ leaderboard = <<>> /\ usernames = <<>> /\ seen = <<>>
    /\ pools = [cur |-> 0, prev |-> 0] /\ storeUp = TRUE /\ created = 0
    /\ inflight = [s \in Slots |-> Idle] /\ resp = NoResponse
    /\ hist = <<>> /\ raced = {} /\ overlaps = 0
    /\ ScoreUnused /\ RoundTripUnused /\ AdapterUnused /\ ClientUnused

\* one call of checkRateLimit
CheckRateLimit(identifier, sweep) ==
    /\ sweep => variant = "rate-limiter.js"
    /\ LET result == checkRateLimit(identifier, sweep)
       IN  /\ requests' = result.requests
           /\ lastCall' = [identifier |-> identifier, time |-> now, allowed |-> result.allowed]
           /\ admitted' = IF result.allowed
                          THEN MapSet(admitted, identifier, Append(MapGet(admitted, identifier), now))
                          ELSE admitted
    /\ lastCleanup' = IF variant \in {"part_012", "part_013"} /\ sweepDue(now, lastCleanup)
                      THEN now ELSE lastCleanup
    /\ UNCHANGED <<variant, now>>
    /\ UNCHANGED <<gameVars, scoreVars, roundTripVars, adapterVars, clientVars>>

\* cleanup() run between calls: by the interval timer of part_011, by a
\* caller of the method in the other classes
Cleanup ==
    /\ variant \in ClassVariants
    /\ requests' = cleanup(requests, now)
    /\ UNCHANGED <<variant, now, lastCleanup, admitted, lastCall>>
    /\ UNCHANGED <<gameVars, scoreVars, roundTripVars, adapterVars, clientVars>>

\* time passes
Tick ==
    /\ now < MaxTicks * TickMs
    /\ now' = now + TickMs
    /\ UNCHANGED <<variant, requests, lastCleanup, admitted, lastCall>>
    /\ UNCHANGED <<gameVars, scoreVars, roundTripVars, adapterVars, clientVars>>

NextLimiter ==
    \/ \E identifier \in Identifiers, sweep \in BOOLEAN : CheckRateLimit(identifier, sweep)
    \/ Cleanup
    \/ Tick

SpecLimiter == InitLimiter /\ [][NextLimiter]_vars

\* the calls of the identifier that returned true inside the window that
\* ends at the last call, the last call itself left out
AdmittedBefore ==
    LET times == MapGet(admitted, lastCall.identifier)
        inWindow == {i \in 1..Len(times) : times[i] > lastCall.time - rateLimitWindow}
    IN  Cardinality(inWindow) - (IF lastCall.allowed THEN 1 ELSE 0)

\* C8: a call returns true as long as fewer than the limit of the
\* identifier's calls returned true inside the window that ends at the call,
\* and false otherwise: the first L calls inside a window return true, the
\* next one false, and a call made once the window has elapsed since those
\* calls returns true again, whether or not a sweep ran in between.
C8_WindowedLimit ==
    lastCall # None => (lastCall.allowed <=> AdmittedBefore < rateLimit)

\* C9: for every identifier, any rateLimit + 1 calls that returned true
\* span at least the window, so no interval shorter than the window holds
\* more than rateLimit of them, whatever calls and sweeps were made.
C9_AtMostLimit ==
    \A id \in DOMAIN admitted :
        \A i \in 1..Len(admitted[id]) :
            i + rateLimit <= Len(admitted[id])
            => admitted[id][i + rateLimit] - admitted[id][i] >= rateLimitWindow

\* an identifier at its limit has been refused after it had been admitted
\* in an earlier window as well
C9_Witness ==
    /\ lastCall # None
    /\ ~lastCall.allowed
    /\ Len(MapGet(admitted, lastCall.identifier)) > rateLimit
    /\ AdmittedBefore = rateLimit

\* ------------------------------------------------------------------------
\* The session store on its own (unnamed/part_014:147-169, 279-282)
\* ------------------------------------------------------------------------
\* session ids handed to the store: an issued uuid, two short ids that
\* differ by an underscore, and an id of more than 50 characters
StoreIds ==
    {IssuedSessionIds[1],
     <<"a", "b", "-", "1">>,
     <<"a", "_", "b", "-", "1">>,
     IssuedSessionIds[1] \o <<"-">> \o IssuedSessionIds[1]}

\* session values: a new session, one in progress, one complete
SessionValues ==
    {[NewSession(userId, IssuedSessionIds[1], FirstN(getMockQuestions, GameSize))
         EXCEPT !.currentQuestion = progress[1], !.score = progress[2]] :
       userId \in Starters, progress \in {<<0, 0>>, <<3, 38>>, <<5, 100>>}}

InitRoundTrip ==
    /\ sessions = <<>>
    /\ storeUp = TRUE
    /\ lastSet = <<>>
    /\ got = None
    /\ leaderboard = <<>> /\ usernames = <<>> /\ seen = <<>>
    /\ pools = [cur |-> 0, prev |-> 0] /\ created = 0
    /\ inflight = [s \in Slots |-> Idle] /\ resp = NoResponse
    /\ hist = <<>> /\ raced = {} /\ overlaps = 0
    /\ ScoreUnused /\ LimiterUnused /\ AdapterUnused /\ ClientUnused

\* await setSession(sessionId, data)
SetSession(sessionId, data) ==
    /\ sessions' = setSession(sessions, storeUp, sessionId, data)
    /\ lastSet' = MapSet(lastSet, sessionId, data)
    /\ got' = None
    /\ UNCHANGED <<leaderboard, usernames, seen, pools, storeUp, created,
                   inflight, resp, hist, raced, overlaps>>
    /\ UNCHANGED <<scoreVars, limiterVars, adapterVars, clientVars>>

\* await getSession(sessionId)
GetSession(sessionId) ==
    /\ got' = [sessionId |-> sessionId, session |-> getSession(sessions, storeUp, sessionId)]
    /\ UNCHANGED <<gameVars, scoreVars, limiterVars, lastSet, adapterVars, clientVars>>

NextRoundTrip ==
    \/ \E sessionId \in StoreIds, data \in SessionValues : SetSession(sessionId, data)
    \/ \E sessionId \in StoreIds : GetSession(sessionId)

SpecRoundTrip == InitRoundTrip /\ [][NextRoundTrip]_vars

\* C10: with a reachable store, getSession(id) for a valid id returns a value
\* equal to the data of the last setSession(id, data), whatever was done with
\* other ids in between.
C10_RoundTrip ==
    (/\ got # None
     /\ validateSessionId(got.sessionId)
     /\ got.sessionId \in DOMAIN lastSet)
    => got.session = lastSet[got.sessionId]

\* ------------------------------------------------------------------------
\* The session operations of the adapter with a store that can fail
\* (unnamed/part_014:147-188, valkey-client.js:126-167)
\* ------------------------------------------------------------------------
\* connect() rejects, or the command under withTimeout rejects or times out
CommandFails(up) == ~up

\* the adapter methods whose catch block ends in `throw error`
Rethrowing == {"storeWeeklyQuestions", "deleteWeeklyQuestions", "ping"}

\* the call rejects: the command failed and the catch block rethrows
Throws(op, up) == CommandFails(up) /\ op \in Rethrowing

\* updateSession and createSession return this.setSession(sessionId, data)
SessionWriters == {"setSession", "updateSession", "createSession"}

\* session ids handed to the adapter: an issued uuid and two short ids that
\* differ by an underscore
AdapterIds == {IssuedSessionIds[1], <<"a", "b", "-", "1">>, <<"a", "_", "b", "-", "1">>}

\* session values written: a new session and one in progress
AdapterValues == {v \in SessionValues : v.currentQuestion < TOTAL_QUESTIONS}

\* a call of the adapter as its caller sees it: whether it threw, what it
\* returned, and (for the properties) whether the key was stored before it,
\* whether the store answered and what the store held afterwards
AdapterCall(op, sessionId, data, result, after) ==
    [op |-> op, sessionId |-> sessionId, data |-> data,
     found |-> sanitizeSessionId(sessionId) \in DOMAIN sessions,
     answered |-> ~CommandFails(storeUp),
     threw |-> Throws(op, storeUp), result |-> result, after |-> after]

\* the two most recent calls
Recent(call) == IF calls = <<>> THEN <<call>> ELSE <<calls[Len(calls)], call>>

InitAdapter ==
    /\ sessions = <<>>
    /\ storeUp = TRUE
    /\ calls = <<>>
    /\ leaderboard = <<>> /\ usernames = <<>> /\ seen = <<>>
    /\ pools = [cur |-> 0, prev |-> 0] /\ created = 0
    /\ inflight = [s \in Slots |-> Idle] /\ resp = NoResponse
    /\ hist = <<>> /\ raced = {} /\ overlaps = 0
    /\ ScoreUnused /\ LimiterUnused /\ RoundTripUnused /\ ClientUnused

\* await setSession / updateSession / createSession (sessionId, data)
CallSetSession(op, sessionId, data) ==
    /\ LET after == setSession(sessions, storeUp, sessionId, data)
       IN  /\ sessions' = after
           /\ calls' = Recent(AdapterCall(op, sessionId, data, Null, after))
    /\ UNCHANGED <<leaderboard, usernames, seen, pools, storeUp, created,
                   inflight, resp, hist, raced, overlaps>>
    /\ UNCHANGED <<scoreVars, limiterVars, roundTripVars, clientVars>>

\* await getSession(sessionId)
CallGetSession(sessionId) ==
    /\ calls' = Recent(AdapterCall("getSession", sessionId, Null,
                                   getSession(sessions, storeUp, sessionId), sessions))
    /\ UNCHANGED <<gameVars, scoreVars, limiterVars, roundTripVars, clientVars>>

\* await deleteSession(sessionId)
CallDeleteSession(sessionId) ==
    /\ LET after == deleteSession(sessions, storeUp, sessionId)
       IN  /\ sessions' = after
           /\ calls' = Recent(AdapterCall("deleteSession", sessionId, Null, Null, after))
    /\ UNCHANGED <<leaderboard, usernames, seen, pools, storeUp, created,
                   inflight, resp, hist, raced, overlaps>>
    /\ UNCHANGED <<scoreVars, limiterVars, roundTripVars, clientVars>>

\* the store stops answering (connection lost, commands time out)
StoreFails ==
    /\ storeUp
    /\ storeUp' = FALSE
    /\ UNCHANGED <<sessions, leaderboard, usernames, seen, pools, created,
                   inflight, resp, hist, raced, overlaps>>
    /\ UNCHANGED notGameVars

\* the store answers again
StoreRecovers ==
    /\ ~storeUp
    /\ storeUp' = TRUE
    /\ UNCHANGED <<sessions, leaderboard, usernames, seen, pools, created,
                   inflight, resp, hist, raced, overlaps>>
    /\ UNCHANGED notGameVars

NextAdapter ==
    \/ \E op \in SessionWriters, sessionId \in AdapterIds, data \in AdapterValues :
          CallSetSession(op, sessionId, data)
    \/ \E sessionId \in AdapterIds : CallGetSession(sessionId)
    \/ \E sessionId \in AdapterIds : CallDeleteSession(sessionId)
    \/ StoreFails
    \/ StoreRecovers

SpecAdapter == InitAdapter /\ [][NextAdapter]_vars

C12_FailuresReported ==
    \A i \in 1..Len(calls) :
        (calls[i].op \in SessionWriters /\ ~calls[i].threw)
        => LET key == sanitizeSessionId(calls[i].sessionId)
           IN  /\ key \in DOMAIN calls[i].after
               /\ calls[i].after[key] = JSONstringify(calls[i].data)

\* ------------------------------------------------------------------------
\* The game flow with a store that can fail, requests served one at a time
\* (index.js:614-899, and the endSession of the file's first copy, 333-356)
\* ------------------------------------------------------------------------
\* userId.split('@')[0] || userId
LocalPart(userId) ==
    LET ats   == {i \in 1..Len(userId) : userId[i] = "@"}
        first == IF ats = {} THEN Len(userId) + 1
                 ELSE CHOOSE i \in ats : \A j \in ats : i <= j
    IN  IF first = 1 THEN userId ELSE SubSeq(userId, 1, first - 1)

\* endSession as the first copy of index.js has it (333-356): the session id
\* is not validated, the display name is derived from the user id
\* (session.username is never set), and the session is not deleted
EndSessionEarlier(userId, sessionId) ==
    /\ ~AnyBusy
    /\ LET key      == sanitizeSessionId(sessionId)
           session  == getSession(sessions, storeUp, sessionId)
           username == LocalPart(userId)
       IN  IF session = Null \/ session.userId # userId
           THEN /\ resp' = Response("end", 400, <<"Invalid session">>, userId, key)
                /\ UNCHANGED <<leaderboard, usernames>>
           ELSE /\ leaderboard' = addToLeaderboard(leaderboard, storeUp, session.score,
                                                   userId, username)
                /\ usernames' = storeUsername(usernames, storeUp, username, userId)
                /\ resp' = [Response("end", 200, NoError, userId, key)
                               EXCEPT !.totalScore = session.score]
    /\ UNCHANGED <<sessions, seen, pools, storeUp, created, inflight, hist, raced, overlaps>>
    /\ UNCHANGED notGameVars

\* the current week's pool has been preloaded
InitOutage == Init /\ pools.cur >= MinWeeklyQuestions

\* accepted answers whose session write may be lost before the client gives up
MaxLostWrites == 1

\* the client keeps answering while it has not been told more often than
\* that that an answer was accepted
Answering ==
    \A k \in DOMAIN hist : hist[k].count < TOTAL_QUESTIONS + MaxLostWrites

\* the requests of a client that answers correctly: for the question at the
\* current index, the one before it or the one after it
OutageRequests == {r \in WellFormedRequests : r.answer # WrongAnswer}

NextOutage ==
    \/ \E userId \in Starters, category \in CategoryInputs, r \in RandomValues :
          StartGame(userId, category, r)
    \/ \E userId \in UserIds, requestData \in OutageRequests :
          Answering /\ SubmitAnswerBegin(1, userId, requestData)
    \/ SubmitAnswerEnd(1)
    \/ \E userId \in UserIds, sessionId \in SessionIdInputs :
          EndSessionBegin(1, userId, sessionId)
    \/ EndSessionRecord(1)
    \/ EndSessionFinish(1)
    \/ \E userId \in UserIds, sessionId \in SessionIdInputs :
          EndSessionEarlier(userId, sessionId)
    \/ StoreFails
    \/ StoreRecovers

SpecOutage == InitOutage /\ [][NextOutage]_vars

C13_Step ==
    /\ (/\ Returned
        /\ resp'.op \in {"submit", "end"}
        /\ resp'.error \notin InputErrors
        /\ CommandFails(storeUp))
       => resp'.status = 503
    /\ (/\ Completes(1)
        /\ inflight[1].op = "submit"
        /\ resp'.status = 200)
       => /\ inflight[1].key \in DOMAIN sessions'
          /\ sessions'[inflight[1].key] = JSONstringify(inflight[1].session)

\* C13: a submit-answer or end-session that has passed input validation and
\* is answered while the store does not answer its session read or write
\* gets status 503 (not 200, not 400), and a submit-answer that is answered
\* with 200 has written the advanced session to the store.
C13_Unavailable503 == [][C13_Step]_vars

C14_Step ==
    (resp' # resp /\ resp'.op = "start" /\ resp'.status = 200)
    => /\ resp'.key \in DOMAIN sessions'
       /\ parseJsonSafely(sessions'[resp'.key]).userId = resp'.user
       /\ parseJsonSafely(sessions'[resp'.key]).currentQuestion = 0
       /\ parseJsonSafely(sessions'[resp'.key]).score = 0

\* C14: when start-game returns 200 with a sessionId, the store holds under
\* that id a session of the caller with currentQuestion 0 and score 0 (a
\* start-game whose session could not be stored does not return 200).
C14_StartStoresSession == [][C14_Step]_vars

C16_Step ==
    (/\ Returned
     /\ resp'.op = "end"
     /\ resp'.status # 400
     /\ ~CommandFails(storeUp))
    => getSession(sessions', storeUp, resp'.key) = Null

\* C16: when an end-session that passed the ownership check returns, with
\* the store answering, getSession for its session id returns null, whether
\* or not the leaderboard and username writes took effect.
C16_SessionDeleted == [][C16_Step]_vars

\* the current leaderboard holds an entry of the user with the score
ScoreRecorded(userId, score) ==
    \E member \in DOMAIN leaderboard :
        member[1] = sanitizeUserId(userId) /\ leaderboard[member] = score

\* C17: the plain success response of end-session (status 200) is returned
\* only when the final score it reports was written to the leaderboard; when
\* the leaderboard write fails the response is a degraded one.
C17_DegradedOnFailure ==
    (resp.op = "end" /\ resp.status = 200) => ScoreRecorded(resp.user, resp.totalScore)

\* ------------------------------------------------------------------------
\* The weekly leaderboard of the adapter (unnamed/part_014:190-234)
\* ------------------------------------------------------------------------
\* the characters of members, in the byte order the sorted set compares by
AsciiOrder ==
    <<"-", ".">> \o DigitSeq \o <<":", "@">> \o UpperSeq \o <<"_">> \o LowerSeq

CharRank(c) == CHOOSE i \in 1..Len(AsciiOrder) : AsciiOrder[i] = c

\* s sorts before t, byte by byte
LexLess(s, t) ==
    \E i \in 1..(Len(t)) :
        /\ \A k \in 1..(i - 1) : k <= Len(s) /\ s[k] = t[k]
        /\ (i > Len(s) \/ (s[i] # t[i] /\ CharRank(s[i]) < CharRank(t[i])))
        /\ i - 1 <= Len(s)

\* the member string `${sanitizedUserId}:${sanitizedUsername}`
MemberString(member) == member[1] \o <<":">> \o member[2]

\* results[i].split(':'): userId is parts[0], username the rest joined again
SplitMember(text) ==
    LET colons == {i \in 1..Len(text) : text[i] = ":"}
        first  == IF colons = {} THEN Len(text) + 1
                  ELSE CHOOSE i \in colons : \A j \in colons : i <= j
    IN  [userId |-> SubSeq(text, 1, first - 1),
         username |-> SubSeq(text, first + 1, Len(text))]

\* member a comes before member b in reverse order: higher score first,
\* equal scores in reverse byte order of the members
RevBefore(board, a, b) ==
    \/ board[a] > board[b]
    \/ board[a] = board[b] /\ LexLess(MemberString(b), MemberString(a))

\* the members at ranks start..stop (0-based), from the highest score down
\* (rev) or from the lowest score up
Range(board, start, stop, rev) ==
    LET last == Min(stop, Cardinality(DOMAIN board) - 1)
        ranked == {<<m, Cardinality({x \in DOMAIN board :
                                        IF rev THEN RevBefore(board, x, m)
                                        ELSE RevBefore(board, m, x)})>> :
                      m \in DOMAIN board}
    IN  [i \in 1..(last - start + 1) |->
            (CHOOSE p \in ranked : p[2] = start + i - 1)[1]]

\* zrange key start stop: from the lowest score up
zrange(board, start, stop) == Range(board, start, stop, FALSE)

\* zrevrange key start stop: from the highest score down
zrevrange(board, start, stop) == Range(board, start, stop, TRUE)

\* the reply with WITHSCORES: member, score, member, score, ... as strings
WithScores(board, members) ==
    [i \in 1..(2 * Len(members)) |->
        IF i % 2 = 1 THEN MemberString(members[(i + 1) \div 2])
        ELSE NumToStr(board[members[i \div 2]])]

\* getLeaderboard: [] on failure
getLeaderboard(board, up) ==
    LET results == WithScores(board, zrevrange(board, 0, 9))
    IN  IF up
        THEN [n \in 1..(Len(results) \div 2) |->
                 [userId |-> SplitMember(results[2 * n - 1]).userId,
                  username |-> SplitMember(results[2 * n - 1]).username,
                  score |-> StrToNum(results[2 * n])]]
        ELSE <<>>

\* players that end a session in one week
MaxPlayers == 11

PlayerId(n) == <<"p">> \o NumToStr(n)

\* scores passed to addToLeaderboard: the first player's score is any of
\* these, the scores of the others are 18 and 90
WideScores == {0 - 5, 0, 18, 1000, 1001, 10000, 10001}

ScoresOf(n) == IF n = 1 THEN WideScores ELSE {18, 90}

InitLeaderboard ==
    /\ leaderboard = <<>>
    /\ storeUp = TRUE
    /\ calls = <<>>
    /\ sessions = <<>> /\ usernames = <<>> /\ seen = <<>>
    /\ pools = [cur |-> 0, prev |-> 0] /\ created = 0
    /\ inflight = [s \in Slots |-> Idle] /\ resp = NoResponse
    /\ hist = <<>> /\ raced = {} /\ overlaps = 0
    /\ ScoreUnused /\ LimiterUnused /\ RoundTripUnused /\ ClientUnused

\* await addToLeaderboard(score, userId, username) for the next player
AddToLeaderboard(n, score) ==
    /\ n = Cardinality(DOMAIN leaderboard) + 1
    /\ n <= MaxPlayers
    /\ LET after == addToLeaderboard(leaderboard, storeUp, score, PlayerId(n), DisplayName)
       IN  /\ leaderboard' = after
           /\ calls' = <<[op |-> "addToLeaderboard", score |-> score,
                         stored |-> after[<<sanitizeUserId(PlayerId(n)),
                                            sanitizeUsername(DisplayName)>>]]>>
    /\ UNCHANGED <<sessions, usernames, seen, pools, storeUp, created,
                   inflight, resp, hist, raced, overlaps>>
    /\ UNCHANGED <<scoreVars, limiterVars, roundTripVars, clientVars>>

\* await getLeaderboard()
GetLeaderboard ==
    /\ calls' = <<[op |-> "getLeaderboard", result |-> getLeaderboard(leaderboard, storeUp)]>>
    /\ UNCHANGED <<gameVars, scoreVars, limiterVars, roundTripVars, clientVars>>

NextLeaderboard ==
    \/ \E n \in 1..MaxPlayers : \E score \in ScoresOf(n) : AddToLeaderboard(n, score)
    \/ GetLeaderboard

SpecLeaderboard == InitLeaderboard /\ [][NextLeaderboard]_vars

\* the entries of the board that an entry of the result stands for
EntryOf(entry) ==
    {m \in DOMAIN leaderboard :
        /\ m[1] = entry.userId /\ m[2] = entry.username
        /\ leaderboard[m] = entry.score}

\* C18: getLeaderboard returns at most 10 entries in descending order of
\* score; they are entries of the current board, min(10, members) of them,
\* and no member left out has a higher score than one returned.
C18_TopTenDescending ==
    (calls # <<>> /\ calls[1].op = "getLeaderboard")
    => LET result == calls[1].result
       IN  /\ Len(result) <= 10
           /\ Len(result) = Min(10, Cardinality(DOMAIN leaderboard))
           /\ \A i \in 1..Len(result) : \A j \in 1..Len(result) :
                 i < j => result[i].score >= result[j].score
           /\ \A i \in 1..Len(result) : EntryOf(result[i]) # {}
           /\ \A i \in 1..Len(result) : \A j \in 1..Len(result) :
                 i # j => EntryOf(result[i]) # EntryOf(result[j])
           /\ \A m \in DOMAIN leaderboard :
                 (\A i \in 1..Len(result) : m \notin EntryOf(result[i]))
                 => \A i \in 1..Len(result) : leaderboard[m] <= result[i].score

\* a board of more than 10 members, with equal scores among them, read back
\* as 10 entries of which the first has a higher score than the last, the
\* member left out having the score of the last one
C18_Witness ==
    /\ calls # <<>> /\ calls[1].op = "getLeaderboard"
    /\ Cardinality(DOMAIN leaderboard) > 10
    /\ Len(calls[1].result) = 10
    /\ calls[1].result[1].score > calls[1].result[10].score
    /\ calls[1].result[9].score = calls[1].result[10].score
    /\ \E m \in DOMAIN leaderboard :
          /\ leaderboard[m] = calls[1].result[10].score
          /\ \A i \in 1..10 : m \notin EntryOf(calls[1].result[i])

\* C19: the score addToLeaderboard stores is the submitted score clamped to
\* [0, 1000] (0 for a score below 0, 1000 for a score above 1000), so every
\* entry of the leaderboard has a score within [0, 1000].
C19_ClampedTo1000 ==
    /\ (calls # <<>> /\ calls[1].op = "addToLeaderboard")
       => calls[1].stored = Max(0, Min(1000, calls[1].score))
    /\ \A m \in DOMAIN leaderboard : leaderboard[m] >= 0 /\ leaderboard[m] <= 1000

\* ------------------------------------------------------------------------
\* Question rotation over several games of one user
\* (question-preloader.js:481-517, index.js:641-655)
\* ------------------------------------------------------------------------
\* games a user starts within the life of the seen set
MaxDraws == 6

\* the values Math.random() takes in a draw (thousandths)
DrawRandoms == RandomValues \cup {500}

InitRotation ==
    /\ seen = <<>>
    /\ pools \in {[cur |-> 0, prev |-> 0], [cur |-> MinWeeklyQuestions, prev |-> 0],
                  [cur |-> 0, prev |-> MinWeeklyQuestions]}
    /\ storeUp = TRUE
    /\ calls = <<>>
    /\ sessions = <<>> /\ leaderboard = <<>> /\ usernames = <<>> /\ created = 0
    /\ inflight = [s \in Slots |-> Idle] /\ resp = NoResponse
    /\ hist = <<>> /\ raced = {} /\ overlaps = 0
    /\ ScoreUnused /\ LimiterUnused /\ RoundTripUnused /\ ClientUnused

\* startGame up to the marking of the questions as seen: getGameQuestions,
\* then addSeenQuestions with the ids of the batch
DrawQuestions(userId, r) ==
    /\ Cardinality(getSeenQuestions(seen, storeUp, userId)) < GameSize * MaxDraws
    /\ LET allQuestions  == fetchAndCacheQuestions(pools, storeUp)
           seenQuestions == getSeenQuestions(seen, storeUp, userId)
           questions     == getGameQuestions(allQuestions, seenQuestions, r)
           ids           == [i \in 1..Len(questions) |-> QId(questions[i])]
       IN  /\ seen' = addSeenQuestions(seen, storeUp, userId, ids)
           /\ calls' = <<[op |-> "getGameQuestions", userId |-> userId,
                         seenBefore |-> seenQuestions,
                         poolSize |-> Len(allQuestions), batch |-> ids]>>
    /\ UNCHANGED <<sessions, leaderboard, usernames, pools, storeUp, created,
                   inflight, resp, hist, raced, overlaps>>
    /\ UNCHANGED <<scoreVars, limiterVars, roundTripVars, clientVars>>

\* the preloader stores the pool of the current week
PoolPreloaded ==
    /\ pools.cur < MinWeeklyQuestions
    /\ pools' = [pools EXCEPT !.cur = MinWeeklyQuestions]
    /\ UNCHANGED <<sessions, leaderboard, usernames, seen, storeUp, created,
                   inflight, resp, hist, raced, overlaps>>
    /\ UNCHANGED notGameVars

NextRotation ==
    \/ \E userId \in Starters, r \in DrawRandoms : DrawQuestions(userId, r)
    \/ PoolPreloaded

SpecRotation == InitRotation /\ [][NextRotation]_vars

NullEntry == 0 - 1

\* pools.nulls: the array under the week key holds null as its first entry
StoredQuestions(allQuestions, nulls) ==
    IF nulls /\ allQuestions # getMockQuestions
    THEN [allQuestions EXCEPT ![1] = NullEntry]
    ELSE allQuestions

\* q.id of the filter callback raises a TypeError on a null entry
FilterThrows(allQuestions) == \E i \in 1..Len(allQuestions) : allQuestions[i] = NullEntry

\* getGameQuestions with its try and catch: the lookup of the seen set may
\* lose the race against the one-second timer, an error inside the try
\* returns getMockQuestions()
getGameQuestionsOrMock(poolState, seenSets, up, userId, timedOut, r) ==
    LET allQuestions  == StoredQuestions(fetchAndCacheQuestions(poolState, up), poolState.nulls)
        seenQuestions == IF timedOut THEN {} ELSE getSeenQuestions(seenSets, up, userId)
    IN  IF FilterThrows(allQuestions) THEN getMockQuestions
        ELSE getGameQuestions(allQuestions, seenQuestions, r)

\* pool sizes at and next to the threshold of 100
PoolSizes == {0, MinWeeklyQuestions - 1, MinWeeklyQuestions}

InitGameQuestions ==
    /\ seen = <<>>
    /\ pools \in [cur : PoolSizes, prev : {0, MinWeeklyQuestions}, nulls : BOOLEAN]
    /\ storeUp = TRUE
    /\ calls = <<>>
    /\ sessions = <<>> /\ leaderboard = <<>> /\ usernames = <<>> /\ created = 0
    /\ inflight = [s \in Slots |-> Idle] /\ resp = NoResponse
    /\ hist = <<>> /\ raced = {} /\ overlaps = 0
    /\ ScoreUnused /\ LimiterUnused /\ RoundTripUnused /\ ClientUnused

\* startGame up to the marking of the questions as seen
GetGameQuestions(userId, timedOut, r) ==
    /\ Cardinality(getSeenQuestions(seen, TRUE, userId)) < GameSize * MaxDraws
    /\ LET questions == getGameQuestionsOrMock(pools, seen, storeUp, userId, timedOut, r)
           ids       == [i \in 1..Len(questions) |-> QId(questions[i])]
       IN  /\ seen' = addSeenQuestions(seen, storeUp, userId, ids)
           /\ calls' = <<[op |-> "getGameQuestions", userId |-> userId,
                         timedOut |-> timedOut, up |-> storeUp,
                         threw |-> FilterThrows(StoredQuestions(
                                      fetchAndCacheQuestions(pools, storeUp), pools.nulls)),
                         mock |-> \A i \in 1..Len(questions) : IsMock(questions[i]),
                         batch |-> ids]>>
    /\ UNCHANGED <<sessions, leaderboard, usernames, pools, storeUp, created,
                   inflight, resp, hist, raced, overlaps>>
    /\ UNCHANGED <<scoreVars, limiterVars, roundTripVars, clientVars>>

NextGameQuestions ==
    \/ \E userId \in Starters, timedOut \in BOOLEAN, r \in RandomValues :
          GetGameQuestions(userId, timedOut, r)
    \/ StoreFails
    \/ StoreRecovers

SpecGameQuestions == InitGameQuestions /\ [][NextGameQuestions]_vars

C21_FiveUnlessThrown ==
    (calls # <<>> /\ calls[1].op = "getGameQuestions" /\ ~calls[1].threw)
    => Len(calls[1].batch) = GameSize

\* ------------------------------------------------------------------------
\* Week keys (question-preloader.js:174-206, 440-479, unnamed/part_014:190-221,
\* 332-348, valkey-client.js:551-555)
\* ------------------------------------------------------------------------
\* Dates are day numbers counted from Monday 1 January 2024; the process
\* runs in UTC, so the local calendar day is the UTC day.
EpochYear == 2000 + 24

IsLeapYear(year) == (year % 4 = 0 /\ year % 100 # 0) \/ year % 400 = 0

\* new Date(Date.UTC(year, 0, 1)) as a day number
RECURSIVE YearStart(_)
YearStart(year) ==
    IF year <= EpochYear THEN 0
    ELSE YearStart(year - 1) + (IF IsLeapYear(year - 1) THEN 366 ELSE 365)

RECURSIVE YearFrom(_, _)
YearFrom(day, year) == IF day < YearStart(year + 1) THEN year ELSE YearFrom(day, year + 1)

getFullYear(day) == YearFrom(day, EpochYear)

\* Date.prototype.getUTCDay: 0 for Sunday .. 6 for Saturday
getDay(day) == (day + 1) % 7

CeilDiv(a, b) == (a + b - 1) \div b

\* getWeekNumber of the preloader, the rotation service and the adapter: the
\* week of the Thursday of the date's week, counted from 1 January of the
\* Thursday's year
getWeekNumber(day) ==
    LET dayNum    == IF getDay(day) = 0 THEN 7 ELSE getDay(day)
        d         == day + 4 - dayNum
        yearStart == YearStart(getFullYear(d))
    IN  CeilDiv((d - yearStart) + 1, 7)

\* getWeekNumber of valkey-client.js:551-555; half is the time of day in
\* half days (0 at midnight, 1 at noon), pastDaysOfYear is a fraction
getWeekNumberEarlier(day, half) ==
    LET firstDayOfYear  == YearStart(getFullYear(day))
        pastHalfDays    == 2 * (day - firstDayOfYear) + half
    IN  CeilDiv(pastHalfDays + 2 * (getDay(firstDayOfYear) + 1), 14)

\* getWeekNumber of the adapter with its memo: the week and the memo left
getWeekNumberMemo(cache, day) ==
    IF cache # None /\ cache.date = day THEN [week |-> cache.week, cache |-> cache]
    ELSE [week |-> getWeekNumber(day), cache |-> [date |-> day, week |-> getWeekNumber(day)]]

\* week.toString().padStart(2, '0')
padStart2(text) == IF Len(text) < 2 THEN <<"0">> \o text ELSE text

\* `${year}-W${week.toString().padStart(2, '0')}`
getWeekKey(day) ==
    NumToStr(getFullYear(day)) \o <<"-", "W">> \o padStart2(NumToStr(getWeekNumber(day)))

\* the week part of `valkey:leaderboard:${year}-${week}`
LeaderboardWeek(year, week) == NumToStr(year) \o <<"-">> \o NumToStr(week)

\* year changes covered by the dates, and days on either side of 1 January
YearChanges == 2

DaysAround == 3

Days == UNION {{YearStart(EpochYear + k) + o : o \in (0 - DaysAround)..DaysAround} :
               k \in 1..YearChanges}

\* the ISO week of a day: weeks run from Monday to Sunday and day 0 is a Monday
IsoWeek(day) == day \div 7

InitWeekKey ==
    /\ weekCache = None
    /\ calls = <<>>
    /\ conn = None
    /\ sessions = <<>> /\ leaderboard = <<>> /\ usernames = <<>> /\ seen = <<>>
    /\ pools = [cur |-> 0, prev |-> 0] /\ storeUp = TRUE /\ created = 0
    /\ inflight = [s \in Slots |-> Idle] /\ resp = NoResponse
    /\ hist = <<>> /\ raced = {} /\ overlaps = 0
    /\ ScoreUnused /\ LimiterUnused /\ RoundTripUnused

WeekCall(op, day, year, week, key) ==
    [op |-> op, day |-> day, year |-> year, week |-> week, key |-> key]

\* QuestionPreloader.getWeekKey with new Date() on the given day
PreloaderWeekKey(day) ==
    /\ calls' = Recent(WeekCall("preloader", day, getFullYear(day), getWeekNumber(day),
                                getWeekKey(day)))
    /\ UNCHANGED <<gameVars, scoreVars, limiterVars, roundTripVars, clientVars>>

\* QuestionService.getWeekKey
ServiceWeekKey(day) ==
    /\ calls' = Recent(WeekCall("service", day, getFullYear(day), getWeekNumber(day),
                                getWeekKey(day)))
    /\ UNCHANGED <<gameVars, scoreVars, limiterVars, roundTripVars, clientVars>>

\* the key addToLeaderboard and getLeaderboard compute
LeaderboardKey(day) ==
    LET memo == getWeekNumberMemo(weekCache, day)
    IN  /\ weekCache' = memo.cache
        /\ calls' = Recent(WeekCall("leaderboard", day, getFullYear(day), memo.week,
                                    LeaderboardWeek(getFullYear(day), memo.week)))
        /\ UNCHANGED <<gameVars, scoreVars, limiterVars, roundTripVars, conn>>

\* the key of the leaderboard code of valkey-client.js:460-480
LeaderboardKeyEarlier(day, half) ==
    LET week == getWeekNumberEarlier(day, half)
    IN  /\ calls' = Recent(WeekCall("leaderboardEarlier", day, getFullYear(day), week,
                                    LeaderboardWeek(getFullYear(day), week)))
        /\ UNCHANGED <<gameVars, scoreVars, limiterVars, roundTripVars, clientVars>>

NextWeekKey ==
    \/ \E day \in Days : PreloaderWeekKey(day)
    \/ \E day \in Days : ServiceWeekKey(day)
    \/ \E day \in Days : LeaderboardKey(day)
    \/ \E day \in Days, half \in {0, 1} : LeaderboardKeyEarlier(day, half)

SpecWeekKey == InitWeekKey /\ [][NextWeekKey]_vars

WeekPaths == {"preloader", "service", "leaderboard"}

\* C22: for a fixed date the week-key string is the same on every repeated
\* call and the same string in the preloader path, the rotation-service
\* path and the leaderboard path of the store adapter.
C22_SameKeyOnAllPaths ==
    \A i \in 1..Len(calls) : \A j \in 1..Len(calls) :
        (/\ calls[i].op \in WeekPaths /\ calls[j].op \in WeekPaths
         /\ calls[i].day = calls[j].day)
        => calls[i].key = calls[j].key

\* C22, numbers only: for a fixed date the three paths compute the same
\* year and the same week number, and each path repeats its own string
C22_SameYearAndWeek ==
    \A i \in 1..Len(calls) : \A j \in 1..Len(calls) :
        (/\ calls[i].op \in WeekPaths /\ calls[j].op \in WeekPaths
         /\ calls[i].day = calls[j].day)
        => /\ calls[i].year = calls[j].year /\ calls[i].week = calls[j].week
           /\ (calls[i].op = "leaderboard") = (calls[j].op = "leaderboard")
              => calls[i].key = calls[j].key

KeyKind(op) == IF op \in {"preloader", "service"} THEN "pool" ELSE "leaderboard"

\* C23: the week key follows ISO-8601 week numbering with the ISO week-year:
\* two dates give the same question-pool key, and the same leaderboard key,
\* exactly when they lie in the same ISO week, weeks spanning 31 December
\* and 1 January included.
C23_IsoWeekKeys ==
    \A i \in 1..Len(calls) : \A j \in 1..Len(calls) :
        KeyKind(calls[i].op) = KeyKind(calls[j].op)
        => ((IsoWeek(calls[i].day) = IsoWeek(calls[j].day)) <=> (calls[i].key = calls[j].key))

\* C23, week number only: the week number of the preloader, the service and
\* the adapter is the ISO-8601 week number (the same within an ISO week)
C23_IsoWeekNumber ==
    \A i \in 1..Len(calls) : \A j \in 1..Len(calls) :
        (/\ calls[i].op \in WeekPaths /\ calls[j].op \in WeekPaths
         /\ IsoWeek(calls[i].day) = IsoWeek(calls[j].day))
        => calls[i].week = calls[j].week

\* ------------------------------------------------------------------------
\* Weekly preloader (question-preloader.js:22-86, 158-172)
\* ------------------------------------------------------------------------
TARGET_QUESTIONS_PER_WEEK == 500

\* the size the pool read back must have before the previous pool is deleted
CleanupMinimum == 400

\* question counts a run of the ten batches can collect
FetchedCounts == {0, 50, CleanupMinimum - 1, CleanupMinimum, TARGET_QUESTIONS_PER_WEEK}

\* the previous pool deleted whatever was read back
cleanupDueAlways(currentQuestions) == TRUE

\* cleanupOldQuestions: currentQuestions && currentQuestions.length >= 400
cleanupDue(currentQuestions) == Len(currentQuestions) >= CleanupMinimum

InitPreload ==
    /\ pools \in [cur : {0, 50}, prev : {0, TARGET_QUESTIONS_PER_WEEK}]
    /\ storeUp = TRUE
    /\ inflight = [s \in Slots |-> Idle]
    /\ calls = <<>>
    /\ sessions = <<>> /\ leaderboard = <<>> /\ usernames = <<>> /\ seen = <<>>
    /\ created = 0 /\ resp = NoResponse
    /\ hist = <<>> /\ raced = {} /\ overlaps = 0
    /\ ScoreUnused /\ LimiterUnused /\ RoundTripUnused /\ ClientUnused

Preloading(pc) == inflight[1].op = "preloadWeeklyQuestions" /\ inflight[1].pc = pc

PreloadStep(pc, fetched, readBack) ==
    [inflight EXCEPT ![1] = [op |-> "preloadWeeklyQuestions", pc |-> pc,
                             fetched |-> fetched, readBack |-> readBack]]

\* the run returns: what it stored, what it read back, whether it deleted
PreloadReturn(success, fetched, readBack, deleted) ==
    /\ inflight' = [inflight EXCEPT ![1] = Idle]
    /\ calls' = <<[op |-> "preloadWeeklyQuestions", success |-> success,
                  fetched |-> fetched, readBack |-> readBack, deleted |-> deleted]>>

PreloadUnchanged ==
    /\ UNCHANGED <<sessions, leaderboard, usernames, seen, storeUp, created,
                   resp, hist, raced, overlaps>>
    /\ UNCHANGED <<scoreVars, limiterVars, roundTripVars, clientVars>>

\* preloadWeeklyQuestions up to the first batch: a pool of 500 or more ends the run
PreloadBegin ==
    /\ inflight[1] = Idle
    /\ LET existingQuestions == getWeeklyQuestions(pools, storeUp, "cur")
       IN  IF Len(existingQuestions) >= TARGET_QUESTIONS_PER_WEEK
           THEN PreloadReturn(TRUE, 0, None, FALSE)
           ELSE inflight' = PreloadStep("fetch", 0, None) /\ UNCHANGED calls
    /\ UNCHANGED pools
    /\ PreloadUnchanged

\* PreloadStore with a storeWeeklyQuestions that logs its failure and returns
PreloadStoreSwallowing(fetched) ==
    /\ Preloading("fetch")
    /\ IF fetched = 0
       THEN PreloadReturn(TRUE, 0, None, FALSE) /\ UNCHANGED pools
       ELSE /\ pools' = IF CommandFails(storeUp) THEN pools ELSE [pools EXCEPT !.cur = fetched]
            /\ inflight' = PreloadStep("cleanup", fetched, None)
            /\ UNCHANGED calls
    /\ PreloadUnchanged

\* the ten batches, then storeWeeklyQuestions when anything was fetched; a
\* store that fails makes storeWeeklyQuestions throw, which ends the run
PreloadStore(fetched) ==
    /\ Preloading("fetch")
    /\ IF fetched = 0
       THEN PreloadReturn(TRUE, 0, None, FALSE) /\ UNCHANGED pools
       ELSE IF Throws("storeWeeklyQuestions", storeUp)
       THEN PreloadReturn(FALSE, fetched, None, FALSE) /\ UNCHANGED pools
       ELSE /\ pools' = [pools EXCEPT !.cur = fetched]
            /\ inflight' = PreloadStep("cleanup", fetched, None)
            /\ UNCHANGED calls
    /\ PreloadUnchanged

\* cleanupOldQuestions up to the read back of the current week's pool
CleanupRead ==
    /\ Preloading("cleanup")
    /\ LET currentQuestions == getWeeklyQuestions(pools, storeUp, "cur")
       IN  IF cleanupDue(currentQuestions)
           THEN /\ inflight' = PreloadStep("delete", inflight[1].fetched, Len(currentQuestions))
                /\ UNCHANGED calls
           ELSE PreloadReturn(TRUE, inflight[1].fetched, Len(currentQuestions), FALSE)
    /\ UNCHANGED pools
    /\ PreloadUnchanged

\* deleteWeeklyQuestions(previousWeekKey); its error is caught by the cleanup
CleanupDelete ==
    /\ Preloading("delete")
    /\ IF Throws("deleteWeeklyQuestions", storeUp)
       THEN /\ PreloadReturn(TRUE, inflight[1].fetched, inflight[1].readBack, FALSE)
            /\ UNCHANGED pools
       ELSE /\ PreloadReturn(TRUE, inflight[1].fetched, inflight[1].readBack, TRUE)
            /\ pools' = [pools EXCEPT !.prev = 0]
    /\ PreloadUnchanged

\* the store loses the current week's pool (eviction, flush)
PoolLost ==
    /\ pools.cur > 0
    /\ pools' = [pools EXCEPT !.cur = 0]
    /\ UNCHANGED <<inflight, calls>>
    /\ PreloadUnchanged

NextPreload ==
    \/ PreloadBegin
    \/ \E fetched \in FetchedCounts : PreloadStore(fetched)
    \/ CleanupRead
    \/ CleanupDelete
    \/ PoolLost
    \/ StoreFails
    \/ StoreRecovers

SpecPreload == InitPreload /\ [][NextPreload]_vars

\* C24: the preloader deletes the previous week's pool only after it read
\* back at least 400 questions from the current week's pool; a run that
\* stored fewer than 400, or whose read back failed, leaves the previous
\* pool in place.
C24_Step ==
    /\ (pools'.prev # pools.prev)
       => /\ Preloading("delete")
          /\ inflight[1].readBack >= CleanupMinimum
    /\ (Preloading("cleanup") /\ ~(storeUp /\ pools.cur >= CleanupMinimum))
       => pools'.prev = pools.prev /\ ~Preloading("delete")'

C24_DeleteOnlyAfterReadBack == [][C24_Step]_vars

\* a run that read back 400 questions has deleted the previous pool, which
\* held 500
C24_Witness ==
    /\ calls # <<>> /\ calls[1].op = "preloadWeeklyQuestions"
    /\ calls[1].deleted /\ calls[1].readBack = CleanupMinimum
    /\ pools.prev = 0

\* ------------------------------------------------------------------------
\* exports.handler (index.js:445-562): body parsing, rate limit,
\* authentication, dispatch
\* ------------------------------------------------------------------------
protectedEndpoints == {"/start-game", "/submit-answer", "/end-session"}

\* the paths of the requests: the protected endpoints and one that no case
\* of the switch matches
Paths == protectedEndpoints \cup {"/nowhere"}

\* event.requestContext.identity.sourceIp
SourceIp == <<"1", "0", ".", "0", ".", "0", ".", "7">>

\* userId || sourceIp || 'anonymous'; userId is <<>> when no valid token came
rateLimitKey(event) == IF event.userId # <<>> THEN event.userId ELSE SourceIp

\* the bodies a client sends to a path in the current state
Bodies(path) ==
    CASE path = "/start-game" -> {[category |-> c] : c \in CategoryInputs}
      [] path = "/submit-answer" ->
            {r \in WellFormedRequests : \E userId \in Starters : Scripted(userId, r)}
            \cup MalformedRequests \cup StrayRequests
            \cup {[r EXCEPT !.timeTaken = BadTimeTaken] : r \in StrayRequests}
      [] path = "/end-session" -> {[sessionId |-> s] : s \in SessionIdInputs}
      [] OTHER -> {[none |-> TRUE]}

Events ==
    UNION {{[path |-> path, parseOk |-> parseOk, userId |-> userId, body |-> body] :
               parseOk \in BOOLEAN, userId \in Starters \cup {<<>>}, body \in Bodies(path)}
           : path \in Paths}

\* the stages of the handler in front of the dispatch, authentication first
frontCheckAuthFirst(parseOk, allowed, path, userId) ==
    IF ~parseOk THEN [status |-> 400, error |-> <<"Invalid request format">>]
    ELSE IF path \in protectedEndpoints /\ userId = <<>>
        THEN [status |-> 401, error |-> <<"Unauthorized">>]
    ELSE IF ~allowed THEN [status |-> 429, error |-> <<"Rate limit exceeded">>]
    ELSE [status |-> 0, error |-> NoError]

\* the stages of the handler in front of the dispatch: the status and error
\* of the rejection, status 0 when the request goes on to the switch
frontCheck(parseOk, allowed, path, userId) ==
    IF ~parseOk THEN [status |-> 400, error |-> <<"Invalid request format">>]
    ELSE IF ~allowed THEN [status |-> 429, error |-> <<"Rate limit exceeded">>]
    ELSE IF path \in protectedEndpoints /\ userId = <<>>
        THEN [status |-> 401, error |-> <<"Unauthorized">>]
    ELSE [status |-> 0, error |-> NoError]

StoreContents == <<sessions, leaderboard, usernames, seen, pools>>

InitHandler ==
    /\ sessions = <<>> /\ leaderboard = <<>> /\ usernames = <<>> /\ seen = <<>>
    /\ pools = [cur |-> MinWeeklyQuestions, prev |-> 0]
    /\ storeUp = TRUE /\ created = 0
    /\ inflight = [s \in Slots |-> Idle] /\ resp = NoResponse
    /\ hist = <<>> /\ raced = {} /\ overlaps = 0
    /\ variant = "rate-limiter.js" /\ now = 0 /\ requests = <<>> /\ lastCleanup = 0
    /\ admitted = <<>> /\ lastCall = None
    /\ calls = <<>>
    /\ ScoreUnused /\ RoundTripUnused /\ ClientUnused

Pending == resp.op = "pending"

\* the handler from its entry to the await of requireAuth
Receive(event, sweep) ==
    /\ ~Pending /\ ~AnyBusy
    /\ event.path = "/start-game" => created < Len(IssuedSessionIds)
    /\ LET result  == checkRateLimit(rateLimitKey(event), sweep)
           outcome == frontCheck(event.parseOk, result.allowed, event.path, event.userId)
       IN  /\ requests' = IF event.parseOk THEN result.requests ELSE requests
           /\ lastCall' = IF event.parseOk
                          THEN [identifier |-> rateLimitKey(event), time |-> now,
                                allowed |-> result.allowed]
                          ELSE lastCall
           /\ resp' = IF outcome.status = 0
                      THEN Response("pending", 0, NoError, event.userId, <<>>)
                      ELSE Response("handler", outcome.status, outcome.error, event.userId, <<>>)
           /\ calls' = <<[op |-> "handler", event |-> event,
                         overLimit |-> ~result.allowed, store |-> StoreContents,
                         limiter |-> requests]>>
    /\ UNCHANGED <<sessions, leaderboard, usernames, seen, pools, storeUp, created,
                   inflight, hist, raced, overlaps>>
    /\ UNCHANGED <<variant, now, lastCleanup, admitted>>
    /\ UNCHANGED <<scoreVars, roundTripVars, clientVars>>

\* the switch on method and path: the handler function of the endpoint
Dispatch ==
    /\ Pending /\ ~AnyBusy
    /\ LET event == calls[1].event
       IN  \/ /\ event.path = "/start-game"
              /\ \E r \in RandomValues : StartGame(event.userId, event.body.category, r)
           \/ /\ event.path = "/submit-answer"
              /\ SubmitAnswerBegin(1, event.userId, event.body)
           \/ /\ event.path = "/end-session"
              /\ EndSessionBegin(1, event.userId, event.body.sessionId)
           \/ /\ event.path \notin protectedEndpoints
              /\ resp' = Response("handler", 404, <<"Endpoint not found">>, event.userId, <<>>)
              /\ UNCHANGED <<sessions, leaderboard, usernames, seen, pools, storeUp,
                             created, inflight, hist, raced, overlaps>>
              /\ UNCHANGED notGameVars

NextHandler ==
    \/ \E event \in Events, sweep \in BOOLEAN : Receive(event, sweep)
    \/ Dispatch
    \/ SubmitAnswerEnd(1)
    \/ EndSessionRecord(1)
    \/ EndSessionFinish(1)
    \/ StoreFails
    \/ StoreRecovers

SpecHandler == InitHandler /\ [][NextHandler]_vars

\* the request most recently received has been answered
Answered == calls # <<>> /\ calls[1].op = "handler" /\ ~Pending /\ ~AnyBusy

\* the error of the input validation of the endpoint, made before the store
\* is read
InputError(event) ==
    CASE event.path = "/start-game" -> categoryError(event.body.category)
      [] event.path = "/submit-answer" -> submitInputError(event.body)
      [] event.path = "/end-session" ->
            IF validateSessionId(event.body.sessionId) THEN NoError
            ELSE <<"Invalid session ID">>
      [] OTHER -> NoError

Unauthorized(event) == event.path \in protectedEndpoints /\ event.userId = <<>>

\* the order of the stages for a request whose body was parsed
StagesInOrder(event, overLimit) ==
    /\ overLimit => resp.status = 429
    /\ (~overLimit /\ Unauthorized(event)) => resp.status = 401
    /\ (~overLimit /\ ~Unauthorized(event) /\ InputError(event) # NoError)
       => resp.status = 400 /\ resp.error = InputError(event)
    /\ (~overLimit /\ ~Unauthorized(event) /\ InputError(event) = NoError)
       => resp.status \notin {429, 401}
    /\ (resp.status \in {429, 401} \/ InputError(event) # NoError)
       => StoreContents = calls[1].store

CorrectRequest(session, timeTaken) ==
    LET current == session.questions[session.currentQuestion + 1]
    IN  [sessionId |-> session.sessionId, questionId |-> QId(current),
         answer |-> QCorrectAnswer(current), timeTaken |-> timeTaken]

\* C26: every session start-game issued can be played to its end: for each
\* question of the session, weekly pool and mock fallback alike, the request
\* with the session id, the current question's id, its stored correct answer
\* and a timeTaken within [0, 300] s passes the validation of submit-answer
\* and is accepted as correct.
C26_SessionsPlayable ==
    /\ \A k \in DOMAIN sessions :
          Stored(k).currentQuestion < Len(Stored(k).questions)
          => \A timeTaken \in {0, ScriptTimeTaken, 10 * 300} :
                LET requestData == CorrectRequest(Stored(k), timeTaken)
                IN  /\ submitInputError(requestData) = NoError
                    /\ submitSessionError(Stored(k).userId, requestData, Stored(k)) = NoError
    /\ (resp.op = "submit" /\ resp.scripted) => resp.status = 200 /\ resp.correct

\* end-session returns 200 for the session in this step
EndReturned(key) ==
    \E slot \in Slots :
        /\ Completes(slot) /\ inflight[slot].op = "end" /\ inflight[slot].key = key
        /\ resp'.status = 200

C27_Step ==
    \A key \in DOMAIN sessions \cup DOMAIN sessions' :
        /\ EndReturned(key) => key \notin DOMAIN sessions'
        /\ (key \notin DOMAIN sessions /\ key \in DOMAIN sessions') => created' = created + 1

\* C27: once end-session has returned for a session, getSession never
\* resolves that session id again: end-session leaves the id out of the
\* store, and an id that is not in the store enters it only when start-game
\* issues it, never by the late write of a submit-answer that was in flight.
C27_NoResurrection == [][C27_Step]_vars

SessionComplete(session) == session.currentQuestion = Len(session.questions)

C28_Step ==
    /\ \A key \in DOMAIN hist' :
          AnswerAccepted(key)
          => /\ key \in DOMAIN sessions'
             /\ resp'.gameComplete <=> SessionComplete(Stored(key)')
             /\ resp'.gameComplete => resp'.next = 0
             /\ ~resp'.gameComplete
                => /\ resp'.next = Stored(key)'.currentQuestion + 1
                   /\ resp'.next <= Len(Stored(key)'.questions)
    /\ \A key \in DOMAIN sessions :
          (/\ SessionComplete(Stored(key))
           /\ Returned /\ resp'.op = "submit" /\ resp'.key = key
           /\ \A slot \in Slots : ~Completes(slot))
          => resp'.status = 400 /\ sessions' = sessions

SweptVariants == {"rate-limiter.js", "part_012", "part_013"}

\* one call decides the same, and leaves the same timestamps inside the
\* window, on the map as it is and on the map after cleanup()
Transparent(identifier, sweep) ==
    LET plain == checkRateLimitOn(requests, identifier, sweep)
        swept == checkRateLimitOn(cleanup(requests, now), identifier, sweep)
    IN  /\ plain.allowed = swept.allowed
        /\ cleanup(plain.requests, now) = cleanup(swept.requests, now)

\* C29: sweeps are transparent: in rate-limiter.js, part_012 and part_013 a
\* call of checkRateLimit is accepted or rejected alike whether or not
\* cleanup() ran before it, so the sequence of decisions of any sequence of
\* calls is the same with and without sweeps between the calls.
C29_SweepsTransparent ==
    variant \in SweptVariants
    => \A identifier \in Identifiers, sweep \in BOOLEAN :
          (sweep => variant = "rate-limiter.js") => Transparent(identifier, sweep)

\* C29 for the limiters that prune with the same filter as cleanup():
\* sweeps are transparent in rate-limiter.js and part_012
C29_TransparentWhereFiltered ==
    variant \in {"rate-limiter.js", "part_012"}
    => \A identifier \in Identifiers, sweep \in BOOLEAN :
          (sweep => variant = "rate-limiter.js") => Transparent(identifier, sweep)

\* ------------------------------------------------------------------------
\* The adapter's connection (unnamed/part_014:4-41)
\* ------------------------------------------------------------------------
\* clients the process creates within the model
MaxClients == 3

\* this.client = null
NoClient == 0

\* conn.client is this.client, conn.status the state of every client created
\* (in order of creation), conn.fresh the number of clients created since
\* the connection was last established or reported dropped
InitConnect ==
    /\ conn = [client |-> NoClient, isConnected |-> FALSE, status |-> <<>>, fresh |-> 0]
    /\ weekCache = None
    /\ inflight = [s \in Slots |-> Idle]
    /\ storeUp = TRUE
    /\ sessions = <<>> /\ leaderboard = <<>> /\ usernames = <<>> /\ seen = <<>>
    /\ pools = [cur |-> 0, prev |-> 0] /\ created = 0 /\ resp = NoResponse
    /\ hist = <<>> /\ raced = {} /\ overlaps = 0
    /\ ScoreUnused /\ LimiterUnused /\ RoundTripUnused /\ AdapterUnused

ConnectUnchanged ==
    /\ UNCHANGED <<sessions, leaderboard, usernames, seen, pools, storeUp, created,
                   resp, hist, raced, overlaps>>
    /\ UNCHANGED <<scoreVars, limiterVars, roundTripVars, adapterVars, weekCache>>

\* the test at the head of connect()
needsClient(c) == c.client = NoClient \/ ~c.isConnected

\* connect() from its call to the await of client.connect(), or to its
\* return when the held client is taken
ConnectBegin(slot) ==
    /\ inflight[slot] = Idle
    /\ IF needsClient(conn)
       THEN /\ Len(conn.status) < MaxClients
            /\ conn' = [conn EXCEPT !.client = Len(conn.status) + 1,
                                    !.status = Append(conn.status, "connecting"),
                                    !.fresh = @ + 1]
            /\ inflight' = [inflight EXCEPT ![slot] =
                               [op |-> "connect", mine |-> Len(conn.status) + 1]]
       ELSE UNCHANGED <<conn, inflight>>
    /\ ConnectUnchanged

Connecting(slot) == inflight[slot] # Idle /\ inflight[slot].op = "connect"

\* client.connect() resolves: isConnected = true, this.client is returned
ConnectResolve(slot) ==
    /\ Connecting(slot)
    /\ storeUp
    /\ conn' = [conn EXCEPT !.isConnected = TRUE,
                            !.status[inflight[slot].mine] = "connected",
                            !.fresh = 0]
    /\ inflight' = [inflight EXCEPT ![slot] = Idle]
    /\ ConnectUnchanged

\* client.connect() rejects: the catch clears this.client and rethrows
ConnectReject(slot) ==
    /\ Connecting(slot)
    /\ ~storeUp
    /\ conn' = [conn EXCEPT !.client = NoClient, !.isConnected = FALSE,
                            !.status[inflight[slot].mine] = "closed"]
    /\ inflight' = [inflight EXCEPT ![slot] = Idle]
    /\ ConnectUnchanged

\* an 'error' or 'disconnect' event of a client that was connected: the
\* handler registered at its creation clears isConnected
ClientDropped(c) ==
    /\ c \in 1..Len(conn.status)
    /\ conn.status[c] = "connected"
    /\ conn' = [conn EXCEPT !.isConnected = FALSE, !.status[c] = "closed",
                            !.fresh = IF c = conn.client THEN 0 ELSE @]
    /\ UNCHANGED inflight
    /\ ConnectUnchanged

NextConnect ==
    \/ \E slot \in Slots : ConnectBegin(slot)
    \/ \E slot \in Slots : ConnectResolve(slot)
    \/ \E slot \in Slots : ConnectReject(slot)
    \/ \E c \in 1..MaxClients : ClientDropped(c)
    \/ StoreFails
    \/ StoreRecovers

SpecConnect == InitConnect /\ [][NextConnect]_vars

\* C30: the adapter creates a client only when none is established or the
\* held one was reported dropped: under every interleaving of concurrent
\* connect() calls and of error / disconnect events at most one client is
\* created per outage, and isConnected is true only while the client held
\* is connected.
C30_OneClientPerOutage ==
    /\ conn.fresh <= 1
    /\ conn.isConnected
       => conn.client # NoClient /\ conn.status[conn.client] = "connected"

\* C30, the test alone: under every interleaving a client is created only
\* by a call that finds no client held or isConnected false
C30_Step ==
    Len(conn'.status) > Len(conn.status) => needsClient(conn)

C30_CreatedOnlyWhenNeeded == [][C30_Step]_vars

\* ------------------------------------------------------------------------
\* Sessions of two users ended one after another (index.js:820-899,
\* unnamed/part_014:190-211)
\* ------------------------------------------------------------------------
\* the scores of finished sessions: no answer right, one right, all right
EndedScores == {0, questionScore(TRUE, ScriptTimeTaken),
                GameSize * questionScore(TRUE, ScriptTimeTaken)}

\* the sessions in the store: two of the first user, one of the second
EndedIds == [n \in 1..3 |-> UuidOf("b", n)]

EndedOwner(n) == IF n <= 2 THEN <<"u", "1">> ELSE <<"u", "2">>

\* a session after its fifth answer, as submitAnswer stored it
FinishedSession(n, score) ==
    [NewSession(EndedOwner(n), EndedIds[n], FirstN(PoolSeq(0, MinWeeklyQuestions), GameSize))
        EXCEPT !.currentQuestion = TOTAL_QUESTIONS, !.score = score]

InitEndings ==
    /\ \E scores \in [1..3 -> EndedScores] :
          sessions = [key \in {sanitizeSessionId(EndedIds[n]) : n \in 1..3} |->
                         LET n == CHOOSE i \in 1..3 : sanitizeSessionId(EndedIds[i]) = key
                         IN  JSONstringify(FinishedSession(n, scores[n]))]
    /\ leaderboard = <<>> /\ usernames = <<>> /\ seen = <<>>
    /\ pools = [cur |-> MinWeeklyQuestions, prev |-> 0]
    /\ storeUp = TRUE /\ created = 3
    /\ inflight = [s \in Slots |-> Idle] /\ resp = NoResponse
    /\ hist = <<>> /\ raced = {} /\ overlaps = 0
    /\ ScoreUnused /\ LimiterUnused /\ RoundTripUnused /\ AdapterUnused /\ ClientUnused

\* end-session requests served one at a time, over a store that can fail
NextEndings ==
    \/ \E userId \in UserIds, n \in 1..3 : EndSessionBegin(1, userId, EndedIds[n])
    \/ EndSessionRecord(1)
    \/ EndSessionFinish(1)
    \/ StoreFails
    \/ StoreRecovers

SpecEndings == InitEndings /\ [][NextEndings]_vars

\* the member addToLeaderboard writes for a user
MemberOf(userId) == <<sanitizeUserId(userId), sanitizeUsername(DisplayName)>>

\* end-session returns 200 in this step
EndSucceeds ==
    /\ inflight[1] # Idle /\ inflight[1].op = "end" /\ inflight[1].pc = "delete"
    /\ inflight'[1] = Idle /\ resp'.status = 200

C31_Step ==
    /\ EndSucceeds
       => /\ MemberOf(inflight[1].user) \in DOMAIN leaderboard'
          /\ leaderboard'[MemberOf(inflight[1].user)] = inflight[1].session.score
    /\ \A m \in DOMAIN leaderboard :
          (inflight[1] = Idle \/ m # MemberOf(inflight[1].user))
          => m \in DOMAIN leaderboard' /\ leaderboard'[m] = leaderboard[m]

\* C31: when end-session has returned, the leaderboard holds for the member
\* of that user the score of the session just ended (a later, lower score
\* replaces an earlier higher one), and no step changes the entry of a
\* member other than the one of the user whose session is being ended.
C31_LatestScoreHeld == [][C31_Step]_vars

C31_WriteStep ==
    /\ (inflight[1] # Idle /\ inflight[1].op = "end" /\ inflight[1].pc = "record"
        /\ inflight'[1] # inflight[1] /\ storeUp)
       => /\ DOMAIN leaderboard' = DOMAIN leaderboard \cup {MemberOf(inflight[1].user)}
          /\ leaderboard'[MemberOf(inflight[1].user)] = inflight[1].session.score
    /\ \A m \in DOMAIN leaderboard :
          (inflight[1] = Idle \/ m # MemberOf(inflight[1].user))
          => m \in DOMAIN leaderboard' /\ leaderboard'[m] = leaderboard[m]

\* C31, where the store answers the write: the write of addToLeaderboard
\* sets the member's score to the score of the session being ended, whether
\* higher or lower than the one held, adds no second entry for the member
\* and leaves every other member's entry as it was.
C31_WriteReplaces == [][C31_WriteStep]_vars

\* a lower score has replaced a higher one of the same user while another
\* user's entry is on the board
C31_Lowered ==
    /\ resp.op = "end" /\ resp.status = 200 /\ resp.user = <<"u", "1">>
    /\ DOMAIN sessions = {sanitizeSessionId(EndedIds[3])}
    /\ Cardinality(DOMAIN leaderboard) = 2
    /\ leaderboard[MemberOf(<<"u", "1">>)] = 0
    /\ leaderboard[MemberOf(<<"u", "2">>)] > 0

\* the adapter call made in this step, when it is a write or a delete
SessionChanger ==
    /\ sessions' # sessions
    /\ calls' # <<>>
    /\ calls'[Len(calls')].op \in SessionWriters \cup {"deleteSession"}

\* the step leaves what getSession resolves for the id as it was
SameSession(sessionId) ==
    getSession(sessions', TRUE, sessionId) = getSession(sessions, TRUE, sessionId)

C32_Step ==
    SessionChanger
    => \A other \in AdapterIds :
          (/\ other # calls'[Len(calls')].sessionId
           /\ validateSessionId(other)
           /\ validateSessionId(calls'[Len(calls')].sessionId))
          => SameSession(other)

\* C32: a setSession, updateSession, createSession or deleteSession on one
\* session id leaves what getSession returns for every other session id
\* unchanged, for every two distinct ids that validateSessionId accepts.
C32_IsolatedById == [][C32_Step]_vars

C32_KeyStep ==
    SessionChanger
    => \A other \in AdapterIds :
          sanitizeSessionId(other) # sanitizeSessionId(calls'[Len(calls')].sessionId)
          => SameSession(other)

\* C32 for ids whose sanitized forms differ: the call changes the session of
\* no id that is stored under another key.
C32_IsolatedByKey == [][C32_KeyStep]_vars

\* ------------------------------------------------------------------------
\* What a rejected call of checkRateLimit leaves behind
\* ------------------------------------------------------------------------
\* the limiters the claim about rejected calls is made for
RecordingVariants == {"rate-limiter.js", "part_012"}

\* the key of the map a call works on: rate-limiter.js puts 'anonymous' in
\* the place of a missing identifier
EffectiveId(identifier) ==
    IF variant = "rate-limiter.js" /\ identifier = <<>> THEN anonymous ELSE identifier

\* the decision of a call made at the given time on the given limiter state
DecisionAt(map, last, identifier, time) ==
    CASE variant = "rate-limiter.js" -> checkRateLimitMain(map, identifier, time, FALSE).allowed
      [] variant = "part_011" -> checkRateLimit011(map, identifier, time).allowed
      [] variant = "part_012" -> checkRateLimit012(map, identifier, time, last).allowed
      [] variant = "part_013" -> checkRateLimit013(map, identifier, time, last).allowed
      [] variant = "index.js" -> checkRateLimitIndex(map, identifier, time).allowed

\* this step is a call for the identifier that returns false
RejectedCall(identifier) ==
    /\ ~checkRateLimit(identifier, FALSE).allowed
    /\ requests' = checkRateLimit(identifier, FALSE).requests
    /\ lastCall' = [identifier |-> identifier, time |-> now, allowed |-> FALSE]
    /\ now' = now /\ admitted' = admitted

\* the times at which the next call can be made
LaterTimes == {now + k * TickMs : k \in 0..(MaxTicks + 1)}

\* no list has gained an entry
NothingAdded ==
    \A k \in DOMAIN requests' :
        /\ Len(requests'[k]) <= Len(MapGet(requests, k))
        /\ \A i \in 1..Len(requests'[k]) :
              \E j \in 1..Len(MapGet(requests, k)) : requests'[k][i] = MapGet(requests, k)[j]

\* every entry that is inside the window has been kept
NothingRecentRemoved ==
    \A k \in DOMAIN requests :
        filterRecent(MapGet(requests', k), now) = filterRecent(requests[k], now)

\* a call that would have been admitted is admitted still
NothingPostponed ==
    \A k \in Identifiers, time \in LaterTimes :
        DecisionAt(requests, lastCleanup, k, time)
        => DecisionAt(requests', lastCleanup', k, time)

C33_LiteralStep ==
    \A identifier \in Identifiers :
        RejectedCall(identifier)
        => /\ NothingAdded
           /\ \A k \in (DOMAIN requests \cup DOMAIN requests') \ {EffectiveId(identifier)} :
                 MapGet(requests', k) = MapGet(requests, k)
           /\ NothingPostponed

\* C33: a call of checkRateLimit that returns false, in rate-limiter.js and
\* part_012, adds no timestamp, leaves the list of every other identifier
\* exactly as it was, and postpones no admission.
C33_RejectedRecordsNothing ==
    [][(variant \in RecordingVariants) => C33_LiteralStep]_vars

C33_Step ==
    \A identifier \in Identifiers :
        RejectedCall(identifier)
        => NothingAdded /\ NothingRecentRemoved /\ NothingPostponed

\* C33 as it holds: a call that returns false adds no timestamp for any
\* identifier and removes only timestamps that have left the window (of the
\* identifier itself, and of other identifiers when the call runs the sweep
\* that is due), and no call made afterwards, by this identifier or another
\* one, is refused that would have been admitted without the rejected call.
C33_RejectedAddsNothing ==
    [][(variant \in RecordingVariants) => C33_Step]_vars

\* the same for every limiter of the repository
C33_EveryVariant == [][C33_Step]_vars

\* a rejected call of part_012 has run the sweep that was due, and the
\* sweep has deleted the expired list of another identifier
C33_Witness ==
    /\ variant = "part_012"
    /\ lastCall # None /\ ~lastCall.allowed
    /\ lastCall.time = now /\ lastCleanup = now /\ now > 0
    /\ Len(MapGet(requests, lastCall.identifier)) = rateLimit
    /\ \E k \in DOMAIN admitted : k # lastCall.identifier /\ k \notin DOMAIN requests

\* ------------------------------------------------------------------------
\* The seen-question sets of two users (index.js:641-655,
\* unnamed/part_014:116-131)
\* ------------------------------------------------------------------------
\* games each user starts
SeenGames == 2

\* start-game by either user, over every state of the pool and the store
NextSeen ==
    \/ \E userId \in UserIds, timedOut \in BOOLEAN, r \in RandomValues :
          /\ Cardinality(getSeenQuestions(seen, TRUE, userId)) < GameSize * SeenGames
          /\ GetGameQuestions(userId, timedOut, r)
    \/ StoreFails
    \/ StoreRecovers

SpecSeen == InitGameQuestions /\ [][NextSeen]_vars

\* the ids of the questions of the session start-game builds in this step
NewSessionIds == {calls'[1].batch[i] : i \in 1..Len(calls'[1].batch)}

\* start-game runs in this step
StartsGame == calls' # <<>> /\ calls'[1].op = "getGameQuestions" /\ calls' # calls

\* the set of the caller grows by the ids of the new session when the store
\* answers and stays as it is when it does not; no other set changes
MarksOwnBatch ==
    LET caller == sanitizeUserId(calls'[1].userId)
    IN  /\ getSeenQuestions(seen', TRUE, caller)
             = IF calls'[1].up THEN getSeenQuestions(seen, TRUE, caller) \cup NewSessionIds
               ELSE getSeenQuestions(seen, TRUE, caller)
        /\ \A k \in (DOMAIN seen \cup DOMAIN seen') \ {caller} :
              getSeenQuestions(seen', TRUE, k) = getSeenQuestions(seen, TRUE, k)

C34_Step ==
    /\ seen' # seen => StartsGame
    /\ StartsGame => MarksOwnBatch /\ Cardinality(NewSessionIds) = GameSize

C34_OwnStep ==
    /\ seen' # seen => StartsGame
    /\ StartsGame => MarksOwnBatch

\* C34 without the number of questions: the ids added are exactly those of
\* the new session of the caller, however many questions it has.
C34_OwnBatchMarked == [][C34_OwnStep]_vars

\* ------------------------------------------------------------------------
\* The key of the week before (question-preloader.js:181-198, 447-472)
\* ------------------------------------------------------------------------
\* new Date(year, 0, 1) as a day number, for years before the epoch as well
RECURSIVE Jan1(_)
Jan1(year) ==
    IF year >= EpochYear THEN YearStart(year)
    ELSE Jan1(year + 1) - (IF IsLeapYear(year) THEN 366 ELSE 365)

\* jan1.getDay() === 4 || dec31.getDay() === 4 ? 53 : 52
getWeeksInYear(year) ==
    IF getDay(Jan1(year)) = 4 \/ getDay(Jan1(year + 1) - 1) = 4 THEN 53 ELSE 52

\* currentWeekKey.split('-W'), both parts through parseInt
SplitWeekKey(weekKey) ==
    LET at == CHOOSE i \in 1..(Len(weekKey) - 1) : weekKey[i] = "-" /\ weekKey[i + 1] = "W"
    IN  [year |-> StrToNum(SubSeq(weekKey, 1, at - 1)),
         week |-> StrToNum(SubSeq(weekKey, at + 2, Len(weekKey)))]

getPreviousWeekKey(currentWeekKey) ==
    LET parts == SplitWeekKey(currentWeekKey)
    IN  IF parts.week = 1
        THEN NumToStr(parts.year - 1) \o <<"-", "W">>
                 \o padStart2(NumToStr(getWeeksInYear(parts.year - 1)))
        ELSE NumToStr(parts.year) \o <<"-", "W">> \o padStart2(NumToStr(parts.week - 1))

\* the preloader's cleanup and the rotation service's fallback on the given
\* day: the key of the week, the key they address as the previous week's,
\* and the key under which the pool was written seven days before
PreviousCall(op, day) ==
    [op |-> op, day |-> day, key |-> getWeekKey(day),
     previous |-> getPreviousWeekKey(getWeekKey(day)),
     written |-> getWeekKey(day - 7)]

\* cleanupOldQuestions of the preloader
PreloaderPrevious(day) ==
    /\ calls' = Recent(PreviousCall("cleanupOldQuestions", day))
    /\ UNCHANGED <<gameVars, scoreVars, limiterVars, roundTripVars, clientVars>>

\* fetchAndCacheQuestions of the rotation service, falling back
ServicePrevious(day) ==
    /\ calls' = Recent(PreviousCall("fetchAndCacheQuestions", day))
    /\ UNCHANGED <<gameVars, scoreVars, limiterVars, roundTripVars, clientVars>>

NextPrevious ==
    \/ \E day \in Days : PreloaderPrevious(day)
    \/ \E day \in Days : ServicePrevious(day)

SpecPrevious == InitWeekKey /\ [][NextPrevious]_vars

\* C35: the key getPreviousWeekKey derives from the key of a day is the key
\* of the day seven days earlier, for every day, the days of week 1 and of
\* years with 53 weeks included.
C35_PreviousIsWeekEarlier ==
    \A i \in 1..Len(calls) : calls[i].previous = calls[i].written

\* the calendar year of the day is the year of the Thursday of its week
OwnWeekYear(day) ==
    LET dayNum == IF getDay(day) = 0 THEN 7 ELSE getDay(day)
    IN  getFullYear(day) = getFullYear(day + 4 - dayNum)

\* C35 away from the turn of the year: when the day and the day seven days
\* earlier both lie in the calendar year of their week's Thursday, the
\* previous key is the key written a week earlier.
C35_PreviousWithinYear ==
    \A i \in 1..Len(calls) :
        (OwnWeekYear(calls[i].day) /\ OwnWeekYear(calls[i].day - 7))
        => calls[i].previous = calls[i].written

\* the run makes its storeWeeklyQuestions call in this step, with questions fetched
StoresPool ==
    /\ Preloading("fetch") /\ inflight' # inflight
    /\ IF inflight'[1] = Idle THEN calls'[1].fetched > 0 ELSE inflight'[1].fetched > 0

C36_Step ==
    (StoresPool /\ CommandFails(storeUp))
    => /\ inflight'[1] = Idle
       /\ ~calls'[1].success
       /\ calls'[1].readBack = None /\ ~calls'[1].deleted
       /\ pools' = pools

\* C36: when the store fails or times out at storeWeeklyQuestions, the call
\* raises and preloadWeeklyQuestions returns success = false at once: the
\* cleanup is not run (nothing is read back, nothing deleted) and both
\* pools are as they were, the previous week's pool included.
C36_FailedStoreSkipsCleanup == [][C36_Step]_vars

\* a run that fetched 500 questions has failed to store them and returned,
\* and the previous week's pool of 500 is still there
C36_Witness ==
    /\ calls # <<>> /\ calls[1].op = "preloadWeeklyQuestions"
    /\ ~calls[1].success /\ calls[1].fetched = TARGET_QUESTIONS_PER_WEEK
    /\ inflight[1] = Idle
    /\ pools.prev = TARGET_QUESTIONS_PER_WEEK /\ pools.cur < TARGET_QUESTIONS_PER_WEEK

\* ------------------------------------------------------------------------
\* The number of identifiers the limiter tracks (unnamed/part_011:11-45,
\* part_012:11-59)
\* ------------------------------------------------------------------------
\* the limiters with the maxSize guard that the claim names
GuardedVariants == {"part_011", "part_012"}

\* more identifiers than the limiter is meant to track
TrackedIds == {<<"u">> \o NumToStr(n) : n \in 1..(maxSize + 1)}

InitTracked == InitLimiter /\ variant \in GuardedVariants

NextTracked ==
    \/ \E identifier \in TrackedIds : CheckRateLimit(identifier, FALSE)
    \/ Cleanup
    \/ Tick

SpecTracked == InitTracked /\ [][NextTracked]_vars

\* C37: after every checkRateLimit call the limiter tracks at most maxSize
\* identifiers (10,000 in the source).
C37_AtMostMaxSize == Cardinality(DOMAIN requests) <= maxSize

\* a call for the identifier is admitted in this step
AdmittedCall(identifier) ==
    /\ checkRateLimit(identifier, FALSE).allowed
    /\ requests' = checkRateLimit(identifier, FALSE).requests
    /\ lastCall' = [identifier |-> identifier, time |-> now, allowed |-> TRUE]

C37_GuardStep ==
    \A identifier \in TrackedIds :
        AdmittedCall(identifier)
        => /\ identifier \in DOMAIN requests'
           /\ requests'[identifier][Len(requests'[identifier])] = now
           /\ Cardinality(DOMAIN requests') > maxSize => requests' = cleanup(requests', now)

\* C37 as the code has it: the guard runs after the call has been admitted
\* and recorded; when the map then holds more than maxSize identifiers the
\* sweep has removed every expired timestamp and every identifier without a
\* timestamp inside the window, and nothing else.
C37_SweptAfterAdmission == [][C37_GuardStep]_vars

\* ------------------------------------------------------------------------
\* Adapter operations and game start over a store that may never answer
\* (unnamed/part_014:10-41, 81-95; question-preloader.js:401-517;
\* unnamed/part_004:224-250)
\* ------------------------------------------------------------------------
\* the methods of the adapter that send a command
AdapterOps ==
    {"storeWeeklyQuestions", "getWeeklyQuestions", "deleteWeeklyQuestions",
     "addSeenQuestions", "getSeenQuestions", "getSession", "setSession",
     "deleteSession", "addToLeaderboard", "getLeaderboard",
     "isUsernameAvailable", "storeUsername", "ping"}

\* the methods whose command is awaited without a timer of its own
underTimeoutReads(op) ==
    op \in {"getWeeklyQuestions", "getSeenQuestions", "getSession", "getLeaderboard"}

\* the wait for the command is bounded: every method of the adapter awaits
\* its command through withTimeout(..., 2000); cleanupLegacyCache awaits
\* client.del directly, under the client's commandTimeout of 2000
underTimeout(op) == op \in AdapterOps \cup {"cleanupLegacyCache"}

\* what the caller gets when the operation fails
FailureOutcome(op) == IF op \in Rethrowing THEN "error" ELSE "default"

\* the user whose game starts, with ids of an earlier game in the store
InitReturns ==
    /\ conn = [client |-> NoClient, isConnected |-> FALSE, status |-> <<>>, fresh |-> 0]
    /\ weekCache = None
    /\ inflight = [s \in Slots |-> Idle]
    /\ storeUp = TRUE
    /\ calls = <<>>
    /\ seen = [k \in {sanitizeUserId(<<"u", "1">>)} |->
                  {QId(q) : q \in 1..GameSize}]
    /\ pools \in {[cur |-> 0, prev |-> 0], [cur |-> MinWeeklyQuestions, prev |-> 0],
                  [cur |-> 0, prev |-> MinWeeklyQuestions]}
    /\ sessions = <<>> /\ leaderboard = <<>> /\ usernames = <<>>
    /\ created = 0 /\ resp = NoResponse
    /\ hist = <<>> /\ raced = {} /\ overlaps = 0
    /\ ScoreUnused /\ LimiterUnused /\ RoundTripUnused

ReturnsUnchanged ==
    /\ UNCHANGED <<sessions, leaderboard, usernames, seen, pools, storeUp, created,
                   resp, hist, raced, overlaps>>
    /\ UNCHANGED <<scoreVars, limiterVars, roundTripVars, weekCache>>

\* an operation from its call to its first await: connect() creates a client
\* and awaits client.connect(), or returns the client held and the command
\* is sent
OpStarted(op) ==
    IF needsClient(conn)
    THEN /\ conn' = [conn EXCEPT !.client = 1, !.isConnected = FALSE]
         /\ inflight' = [inflight EXCEPT ![1] = [op |-> op, pc |-> "connecting"]]
    ELSE /\ inflight' = [inflight EXCEPT ![1] = [op |-> op, pc |-> "command"]]
         /\ UNCHANGED conn

\* the operation returns to its caller
OpReturns(outcome, via) ==
    /\ inflight' = [inflight EXCEPT ![1] = Idle]
    /\ calls' = <<[op |-> inflight[1].op, outcome |-> outcome, via |-> via]>>

OpAt(pc) == inflight[1] # Idle /\ inflight[1].pc = pc

\* a handler calls a method of the adapter
Call(op) ==
    /\ inflight[1] = Idle /\ inflight[2] = Idle
    /\ OpStarted(op)
    /\ UNCHANGED calls
    /\ ReturnsUnchanged

\* client.connect() resolves
OpConnected ==
    /\ OpAt("connecting")
    /\ storeUp
    /\ conn' = [conn EXCEPT !.isConnected = TRUE]
    /\ inflight' = [inflight EXCEPT ![1].pc = "command"]
    /\ UNCHANGED calls
    /\ ReturnsUnchanged

\* client.connect() rejects, at the latest when connectTimeout (3000 ms)
\* has passed: connect() clears this.client and rethrows, the method's
\* catch returns its default or rethrows
OpConnectFailed ==
    /\ OpAt("connecting")
    /\ conn' = [conn EXCEPT !.client = NoClient, !.isConnected = FALSE]
    /\ OpReturns(FailureOutcome(inflight[1].op), "connect")
    /\ ReturnsUnchanged

\* the store answers the command
OpAnswered ==
    /\ OpAt("command")
    /\ storeUp
    /\ OpReturns("value", "answer")
    /\ UNCHANGED conn
    /\ ReturnsUnchanged

\* the timer of the command fires first
OpTimedOut ==
    /\ OpAt("command")
    /\ underTimeout(inflight[1].op)
    /\ OpReturns(FailureOutcome(inflight[1].op), "timeout")
    /\ UNCHANGED conn
    /\ ReturnsUnchanged

\* an 'error' or 'disconnect' event of the client held
ConnectionDropped ==
    /\ conn.isConnected
    /\ conn' = [conn EXCEPT !.isConnected = FALSE]
    /\ UNCHANGED <<inflight, calls>>
    /\ ReturnsUnchanged

GameAt(pcs) == inflight[2] # Idle /\ inflight[2].pc \in pcs

\* getGameQuestions from its call to the first await of
\* fetchAndCacheQuestions: the legacy cleanup on the first call of a day,
\* the lookup of the current week's pool otherwise
GameStart(userId, firstToday) ==
    /\ inflight[1] = Idle /\ inflight[2] = Idle
    /\ IF needsClient(conn)
       THEN conn' = [conn EXCEPT !.client = 1, !.isConnected = FALSE]
       ELSE UNCHANGED conn
    /\ inflight' =
          [inflight EXCEPT
              ![1] = [op |-> IF firstToday THEN "cleanupLegacyCache" ELSE "getWeeklyQuestions",
                      pc |-> IF needsClient(conn) THEN "connecting" ELSE "command"],
              ![2] = [op |-> "getGameQuestions", user |-> userId,
                      pc |-> IF firstToday THEN "cleanup" ELSE "pool"]]
    /\ UNCHANGED calls
    /\ ReturnsUnchanged

\* the awaited call has returned and getGameQuestions goes on to its next
\* await: the pool of the current week, the pool of the previous week when
\* the current one is missing or short, then the race of getSeenQuestions
\* against the timer of 1000 ms
GameContinue ==
    /\ GameAt({"cleanup", "pool", "previous"})
    /\ inflight[1] = Idle
    /\ LET found == /\ calls[1].outcome = "value"
                    /\ pools[IF inflight[2].pc = "pool" THEN "cur" ELSE "prev"]
                           >= MinWeeklyQuestions
           nextPc == IF inflight[2].pc = "cleanup" THEN "pool"
                     ELSE IF inflight[2].pc = "pool" /\ ~found THEN "previous"
                     ELSE "race"
       IN  /\ IF needsClient(conn)
              THEN conn' = [conn EXCEPT !.client = 1, !.isConnected = FALSE]
              ELSE UNCHANGED conn
           /\ inflight' =
                 [inflight EXCEPT
                     ![1] = [op |-> IF nextPc = "race" THEN "getSeenQuestions"
                                    ELSE "getWeeklyQuestions",
                             pc |-> IF needsClient(conn) THEN "connecting" ELSE "command"],
                     ![2].pc = nextPc]
    /\ UNCHANGED calls
    /\ ReturnsUnchanged

\* getGameQuestions returns its batch, drawn with the given seen set
GameReturns(seenFrom, seenQuestions) ==
    /\ inflight' = [inflight EXCEPT ![2] = Idle]
    /\ calls' = <<[op |-> "getGameQuestions", seenFrom |-> seenFrom,
                  seenQuestions |-> seenQuestions, answering |-> storeUp]>>

\* the timer of 1000 ms wins the race: the catch keeps seenQuestions = []
\* while getSeenQuestions goes on by itself
SeenTimer ==
    /\ GameAt({"race"})
    /\ GameReturns("timer", {})
    /\ UNCHANGED conn
    /\ ReturnsUnchanged

\* getSeenQuestions wins the race, with the set or with its default []
SeenReturned ==
    /\ GameAt({"race"})
    /\ inflight[1] = Idle
    /\ IF calls[1].outcome = "value"
       THEN GameReturns("lookup", getSeenQuestions(seen, TRUE, inflight[2].user))
       ELSE GameReturns("default", {})
    /\ UNCHANGED conn
    /\ ReturnsUnchanged

NextReturns ==
    \/ \E op \in AdapterOps : Call(op)
    \/ OpConnected
    \/ OpConnectFailed
    \/ OpAnswered
    \/ OpTimedOut
    \/ ConnectionDropped
    \/ \E firstToday \in BOOLEAN : GameStart(<<"u", "1">>, firstToday)
    \/ GameContinue
    \/ SeenTimer
    \/ SeenReturned
    \/ StoreFails
    \/ StoreRecovers

SpecReturns == InitReturns /\ [][NextReturns]_vars

\* the timers run out (connectTimeout, withTimeout and commandTimeout, the
\* timer of the race) and a continuation whose await has settled is run;
\* nothing is assumed about the store
FairReturns ==
    /\ SpecReturns
    /\ WF_vars(OpConnectFailed)
    /\ WF_vars(OpTimedOut)
    /\ WF_vars(GameContinue)
    /\ WF_vars(SeenTimer)

\* C38: every operation of the adapter that was called returns to its
\* caller, whether the store answers, stops answering or never answers the
\* connection attempt; every getGameQuestions returns as well, and when the
\* seen lookup was not answered (the timer won, or the lookup failed) the
\* batch is drawn with an empty seen set.
C38_EveryOperationReturns ==
    /\ (inflight[1] # Idle) ~> (inflight[1] = Idle)
    /\ (inflight[2] # Idle) ~> (inflight[2] = Idle)
    /\ []((calls # <<>> /\ calls[1].op = "getGameQuestions"
           /\ calls[1].seenFrom # "lookup")
          => calls[1].seenQuestions = {})

\* getGameQuestions has returned on its timer with an empty seen set, the
\* store not answering, while the lookup it started is still waiting for
\* its connection
C38_Witness ==
    /\ calls # <<>> /\ calls[1].op = "getGameQuestions"
    /\ calls[1].seenFrom = "timer" /\ calls[1].seenQuestions = {}
    /\ ~storeUp
    /\ inflight[2] = Idle
    /\ OpAt("connecting") /\ inflight[1].op = "getSeenQuestions"
    /\ getSeenQuestions(seen, TRUE, <<"u", "1">>) # {}

====
